---------------------------- MODULE Spec2Model ----------------------------
(***************************************************************************)
(* A model of the Focus command/response layer of Bazecor-rs               *)
(* (libraries/focus/src/api.rs, lib.rs): the framed read of a response     *)
(* from the serial link, the command helpers built on write and read, and  *)
(* the guarded, range-validated property setters.                          *)
(*                                                                         *)
(* Bytes are integers 0..255, byte strings are sequences of bytes.  A      *)
(* command line is a record [name, args, suffix]: the bytes written are    *)
(* name, then (when args is not empty) a space and args, then suffix.      *)
(***************************************************************************)
EXTENDS Integers, Sequences, FiniteSets, TLC

(***************************************************************************)
(* Bounds of the model.                                                    *)
(***************************************************************************)
\* number of callers that share one Focus instance
NumCallers == 2
\* longest payload the device puts in front of the sentinel of a raw reply
MaxPayload == 3
\* number of read increments the host can allocate for the scratch buffer
MaxBlocks == 2

(***************************************************************************)
(* Program constants.                                                      *)
(***************************************************************************)
MAX_LAYERS == 10 - 1
ReadIncrement == 1024
MaxOverlap == 80
MaxIdleSeconds == 65000
MaxMouseSpeed == 127

NUL == 0
TAB == 9
LF == 10
FF == 12
CR == 13
SP == 32
PLUS == 43
DOT == 46
Digit0 == 48
ChA == 97
BadByte == 255

eof_marker == <<CR, LF, DOT, CR, LF>>

(***************************************************************************)
(* Byte-string helpers (slices, Vec and str methods of the Rust library).  *)
(***************************************************************************)
Min(a, b) == IF a < b THEN a ELSE b

\* the zero padding Vec::resize(prev_len + 1024, 0) adds
ZeroBlock == [i \in 1..ReadIncrement |-> NUL]

\* Vec::retain(|&x| x != 0)
Retain(s) == SelectSeq(s, LAMBDA x : x # NUL)

\* slice::ends_with
EndsWith(s, m) ==
    /\ Len(s) >= Len(m)
    /\ SubSeq(s, Len(s) - Len(m) + 1, Len(s)) = m

\* slice::windows(len).position(|w| w == m): 1-based, 0 when there is none
WindowsPosition(s, m) ==
    LET hits == {i \in 1..(Len(s) - Len(m) + 1) : SubSeq(s, i, i + Len(m) - 1) = m}
    IN IF hits = {} THEN 0 ELSE CHOOSE i \in hits : \A j \in hits : i <= j

Contains(s, m) == WindowsPosition(s, m) # 0

\* Vec::drain(pos..pos + n) with a 1-based pos
Drain(s, pos, n) == SubSeq(s, 1, pos - 1) \o SubSeq(s, pos + n, Len(s))

\* u8::is_ascii_whitespace
IsAsciiWhitespaceNoCR(b) == b \in {SP, TAB, LF, FF}
IsAsciiWhitespace(b) == b \in {SP, TAB, LF, FF, CR}

\* the while-let loop of Focus::read that removes every sentinel occurrence
StripMarkersNone(s) == s
RECURSIVE StripMarkers(_)
StripMarkers(s) ==
    LET pos == WindowsPosition(s, eof_marker)
    IN IF pos = 0 THEN s ELSE StripMarkers(Drain(s, pos, Len(eof_marker)))

\* iter().position(|&b| !b.is_ascii_whitespace()).unwrap_or(0), 0-based
TrimStart(s) ==
    LET idx == {i \in 1..Len(s) : ~IsAsciiWhitespace(s[i])}
    IN IF idx = {} THEN 0 ELSE (CHOOSE i \in idx : \A j \in idx : i <= j) - 1

\* iter().rposition(|&b| !b.is_ascii_whitespace()).map_or(0, |p| p + 1)
TrimEnd(s) ==
    LET idx == {i \in 1..Len(s) : ~IsAsciiWhitespace(s[i])}
    IN IF idx = {} THEN 0 ELSE CHOOSE i \in idx : \A j \in idx : j <= i

\* &response_buffer[start..end]
Trimmed(s) == SubSeq(s, TrimStart(s) + 1, TrimEnd(s))

\* std::str::from_utf8: well-formed UTF-8 (RFC 3629 byte ranges)
IsCont(b) == b >= 128 /\ b <= 191
RECURSIVE Utf8Valid(_)
Utf8Valid(s) ==
    IF s = <<>> THEN TRUE
    ELSE LET b == s[1]
             n == Len(s)
         IN IF b < 128 THEN Utf8Valid(Tail(s))
            ELSE IF b >= 194 /\ b <= 223
                 THEN n >= 2 /\ IsCont(s[2]) /\ Utf8Valid(SubSeq(s, 3, n))
            ELSE IF b >= 224 /\ b <= 239
                 THEN /\ n >= 3
                      /\ IsCont(s[2]) /\ IsCont(s[3])
                      /\ (b = 224 => s[2] >= 160)
                      /\ (b = 237 => s[2] <= 159)
                      /\ Utf8Valid(SubSeq(s, 4, n))
            ELSE IF b >= 240 /\ b <= 244
                 THEN /\ n >= 4
                      /\ IsCont(s[2]) /\ IsCont(s[3]) /\ IsCont(s[4])
                      /\ (b = 240 => s[2] >= 144)
                      /\ (b = 244 => s[2] <= 143)
                      /\ Utf8Valid(SubSeq(s, 5, n))
            ELSE FALSE

(***************************************************************************)
(* Results: Result<String> and Result<()> of anyhow.                       *)
(***************************************************************************)
Ok(v) == [ok |-> TRUE, val |-> v, err |-> "none"]
Err(e) == [ok |-> FALSE, val |-> <<>>, err |-> e]
NoResult == [ok |-> FALSE, val |-> <<>>, err |-> "pending"]

\* the part of Focus::read after the read loop: strip, trim, validate
FinishRead(buf) ==
    LET t == Trimmed(StripMarkers(buf))
    IN IF Utf8Valid(t) THEN Ok(t) ELSE Err("Utf8")

(***************************************************************************)
(* Text of numbers: ToString and FromStr of the unsigned integer types.    *)
(***************************************************************************)
U8Max == 255
U16Max == 65535
\* u64 responses: the model's integers stop at 2^31 - 1, far above every
\* value a modelled device reports
U64Model == 2147483647

IsDigit(b) == b >= Digit0 /\ b <= Digit0 + 9

\* u8/u16/u64::to_string
RECURSIVE FormatDec(_)
FormatDec(n) ==
    IF n < 10 THEN <<Digit0 + n>>
    ELSE Append(FormatDec(n \div 10), Digit0 + (n % 10))

\* value of a digit string, or max + 1 as soon as it exceeds max
RECURSIVE DigitsValue(_, _, _)
DigitsValue(s, acc, max) ==
    IF s = <<>> THEN acc
    ELSE IF acc * 10 + (s[1] - Digit0) > max THEN max + 1
    ELSE DigitsValue(Tail(s), acc * 10 + (s[1] - Digit0), max)

\* <uN as FromStr>::from_str: an optional '+', then at least one digit, only
\* digits, no overflow of the type
ParseUnsigned(s, max) ==
    LET body == IF s # <<>> /\ s[1] = PLUS THEN Tail(s) ELSE s
    IN IF body = <<>> \/ \E i \in 1..Len(body) : ~IsDigit(body[i])
       THEN Err("Parse")
       ELSE LET v == DigitsValue(body, 0, max)
            IN IF v > max THEN Err("Parse") ELSE Ok(v)

\* char::is_whitespace on the ASCII range, as used by str::split_whitespace
IsWhitespace(b) == b \in {TAB, LF, 11, FF, CR, SP}

\* str::split_whitespace: the maximal runs of non-whitespace, in order
RECURSIVE SplitWhitespace(_)
SplitWhitespace(s) ==
    IF s = <<>> THEN <<>>
    ELSE IF IsWhitespace(s[1]) THEN SplitWhitespace(Tail(s))
    ELSE LET stops == {i \in 1..Len(s) : IsWhitespace(s[i])}
             stop == IF stops = {} THEN Len(s) + 1
                     ELSE CHOOSE i \in stops : \A j \in stops : i <= j
         IN <<SubSeq(s, 1, stop - 1)>> \o SplitWhitespace(SubSeq(s, stop, Len(s)))

\* string_to_numerical_vec::<T>: every token parsed, the first error wins
RECURSIVE ParseTokens(_, _)
ParseTokens(tokens, max) ==
    IF tokens = <<>> THEN Ok(<<>>)
    ELSE LET head == ParseUnsigned(tokens[1], max)
             rest == ParseTokens(Tail(tokens), max)
         IN IF ~head.ok THEN Err("Parse")
            ELSE IF ~rest.ok THEN Err("Parse")
            ELSE Ok(<<head.val>> \o rest.val)

string_to_numerical_vec(s, max) == ParseTokens(SplitWhitespace(s), max)

\* numerical_vec_to_string: the decimal values joined by single spaces
RECURSIVE JoinedWithoutSpaces(_)
JoinedWithoutSpaces(data) ==
    IF data = <<>> THEN <<>> ELSE FormatDec(data[1]) \o JoinedWithoutSpaces(Tail(data))
RECURSIVE numerical_vec_to_string(_)
numerical_vec_to_string(data) ==
    IF data = <<>> THEN <<>>
    ELSE IF Len(data) = 1 THEN FormatDec(data[1])
    ELSE FormatDec(data[1]) \o <<SP>> \o numerical_vec_to_string(Tail(data))

(***************************************************************************)
(* std::time::Duration: whole seconds and the nanoseconds below a second.  *)
(***************************************************************************)
NanosPerMilli == 1000000
MillisPerSec == 1000

Duration(s, n) == [secs |-> s, nanos |-> n]
from_secs(s) == Duration(s, 0)
from_millis(m) == Duration(m \div MillisPerSec, (m % MillisPerSec) * NanosPerMilli)
as_secs(d) == d.secs
as_millis(d) == d.secs * MillisPerSec + (d.nanos \div NanosPerMilli)

(***************************************************************************)
(* The settable properties: wire name, value type and range limit.         *)
(***************************************************************************)
NoMax == 0 - 1
P(kind, max) == [kind |-> kind, max |-> max]

LedModeLast == 10
PowerModeLast == 2

PropTable ==
    [settings_default_layer |-> P("u8", MAX_LAYERS),
     superkeys_overlap |-> P("u8", MaxOverlap),
     mouse_speed |-> P("u8", MaxMouseSpeed),
     led_idle_true_sleep_time |-> P("secs", MaxIdleSeconds),
     led_idle_time_limit |-> P("secs", MaxIdleSeconds),
     led_brightness_top |-> P("u8", NoMax),
     led_fade |-> P("u16", NoMax),
     keymap_only_custom |-> P("bool", NoMax),
     led_mode |-> P("led_mode", NoMax),
     wireless_rf_power_level |-> P("power_mode", NoMax),
     superkeys_wait_for |-> P("millis", NoMax),
     keymap_custom |-> P("vec_u16", NoMax),
     color_map |-> P("vec_u8", NoMax)]

Props == DOMAIN PropTable

\* the command name of each property on the wire
WireName(p) ==
    CASE p = "settings_default_layer" -> "settings.defaultLayer"
      [] p = "superkeys_overlap" -> "superkeys.overlap"
      [] p = "mouse_speed" -> "mouse.speed"
      [] p = "led_idle_true_sleep_time" -> "idleleds.true_sleep_time"
      [] p = "led_idle_time_limit" -> "idleleds.time_limit"
      [] p = "led_brightness_top" -> "led.brightness"
      [] p = "led_fade" -> "led.fade"
      [] p = "keymap_only_custom" -> "keymap.onlyCustom"
      [] p = "led_mode" -> "led.mode"
      [] p = "wireless_rf_power_level" -> "wireless.rf.power"
      [] p = "superkeys_wait_for" -> "superkeys.waitfor"
      [] p = "keymap_custom" -> "keymap.custom"
      [] p = "color_map" -> "colormap.map"

Kind(p) == PropTable[p].kind
Limit(p) == PropTable[p].max

\* a command line: "{name}\n" or "{name} {args}\n"
Line(name, args) == [name |-> name, args |-> args, suffix |-> LF]
NoLine == [name |-> "", args |-> <<>>, suffix |-> LF]

\* the range checks at the head of the range-validated setters
OutOfRangeOff(p, v) == FALSE
OutOfRange(p, v) ==
    CASE Kind(p) = "u8" /\ Limit(p) # NoMax -> v > Limit(p)
      [] Kind(p) = "secs" /\ Limit(p) # NoMax -> as_secs(v) > Limit(p)
      [] OTHER -> FALSE

\* command_response_bool
ParseBool(s) ==
    IF s = <<>> THEN Err("Parse")
    ELSE IF s = <<Digit0>> \/ s = <<102, 97, 108, 115, 101>> THEN Ok(FALSE)
    ELSE IF s = <<Digit0 + 1>> \/ s = <<116, 114, 117, 101>> THEN Ok(TRUE)
    ELSE Err("Parse")

\* FromStr derived by NumStrEnum: a u8 that is the index of a variant
ParseEnum(s, lastIndex) ==
    LET n == ParseUnsigned(s, U8Max)
    IN IF n.ok /\ n.val <= lastIndex THEN n ELSE Err("Parse")

\* command_response_duration
ParseDuration(s, unit) ==
    LET n == ParseUnsigned(s, U64Model)
    IN IF ~n.ok THEN n
       ELSE IF unit = "millis" THEN Ok(from_millis(n.val))
       ELSE Ok(from_secs(n.val))

\* the typed value a getter makes of the response text
ParseGet(p, s) ==
    CASE Kind(p) = "u8" -> ParseUnsigned(s, U8Max)
      [] Kind(p) = "u16" -> ParseUnsigned(s, U16Max)
      [] Kind(p) = "bool" -> ParseBool(s)
      [] Kind(p) = "led_mode" -> ParseEnum(s, LedModeLast)
      [] Kind(p) = "power_mode" -> ParseEnum(s, PowerModeLast)
      [] Kind(p) = "millis" -> ParseDuration(s, "millis")
      [] Kind(p) = "secs" -> ParseDuration(s, "secs")
      [] Kind(p) = "vec_u16" -> string_to_numerical_vec(s, U16Max)
      [] Kind(p) = "vec_u8" -> string_to_numerical_vec(s, U8Max)

\* the argument text of the set command of a value
SetArgs(p, v) ==
    CASE Kind(p) \in {"u8", "u16", "led_mode", "power_mode"} -> FormatDec(v)
      [] Kind(p) = "bool" -> FormatDec(IF v THEN 1 ELSE 0)
      [] Kind(p) = "millis" -> FormatDec(as_millis(v))
      [] Kind(p) = "secs" -> FormatDec(as_secs(v))
      [] Kind(p) \in {"vec_u16", "vec_u8"} -> numerical_vec_to_string(v)

GetLine(p) == Line(WireName(p), <<>>)
SetLine(p, v) == Line(WireName(p), SetArgs(p, v))

\* the guard of every setter: `if self.x_get().await? == value { return Ok(()) }`
SameValueNever(current, new) == FALSE
SameValue(current, new) == current = new

\* the wait_for_response argument the setters pass with the set command
SetWaitsNot == FALSE
SetWaits == TRUE

\* the values a caller passes to the setter of p
Inputs(p) ==
    CASE Kind(p) = "u8" /\ Limit(p) # NoMax -> {0, Limit(p), Limit(p) + 1}
      [] Kind(p) = "u8" /\ Limit(p) = NoMax -> {0, U8Max}
      [] Kind(p) = "u16" -> {0, U8Max + 1}
      [] Kind(p) = "bool" -> BOOLEAN
      [] Kind(p) = "led_mode" -> {0, LedModeLast}
      [] Kind(p) = "power_mode" -> {0, PowerModeLast}
      [] Kind(p) = "millis" ->
            {from_millis(0), from_millis(1500), Duration(0, 1500000)}
      [] Kind(p) = "secs" ->
            {from_secs(0), from_secs(Limit(p)), Duration(Limit(p), 500000000),
             from_secs(Limit(p) + 1)}
      [] Kind(p) \in {"vec_u16", "vec_u8"} -> {<<>>, <<41>>, <<41, 0>>}

\* the values the device may hold for p when the session starts, in wire units
DevValues(p) ==
    CASE Kind(p) = "u8" /\ Limit(p) # NoMax -> {0, Limit(p)}
      [] Kind(p) = "u8" /\ Limit(p) = NoMax -> {0, U8Max}
      [] Kind(p) = "u16" -> {0, U8Max + 1}
      [] Kind(p) = "bool" -> {0, 1, 2}
      [] Kind(p) = "led_mode" -> {0, LedModeLast, LedModeLast + 1}
      [] Kind(p) = "power_mode" -> {0, PowerModeLast}
      [] Kind(p) = "millis" -> {0, 1, 1500}
      [] Kind(p) = "secs" -> {0, Limit(p)}
      [] Kind(p) \in {"vec_u16", "vec_u8"} -> {<<>>, <<41, 0>>, <<41, U8Max + 1>>}

IsVec(p) == Kind(p) \in {"vec_u16", "vec_u8"}

\* the device's answer text for its value, and the value it stores from the
\* argument text of a set command
DeviceText(p, d) == IF IsVec(p) THEN numerical_vec_to_string(d) ELSE FormatDec(d)
DeviceStore(p, args) ==
    IF IsVec(p) THEN string_to_numerical_vec(args, U16Max).val
    ELSE ParseUnsigned(args, U64Model).val

(***************************************************************************)
(* What the device may send as the reply to a command without a value      *)
(* (version, upgrade.neuron): for version a payload, then the sentinel or  *)
(* nothing; for upgrade.neuron blanks, the sentinel, possibly a line feed. *)
(***************************************************************************)
Alphabet == {NUL, LF, CR, DOT, ChA}
BSeq(S, n) == UNION {[1..k -> S] : k \in 0..n}
\* a payload in which removing one sentinel occurrence of the framed reply
\* brings the bytes of another one together
NestedPayload == <<ChA, CR, LF, CR, LF, DOT>>
Payloads == BSeq(Alphabet, MaxPayload) \cup {<<BadByte>>, NestedPayload}
Blanks == BSeq({CR, LF}, MaxPayload)
Tails == {<<>>, <<LF>>}
Scripts ==
    {pl \o eof_marker : pl \in Payloads} \cup Payloads
AckScripts ==
    {w \o eof_marker \o t : w \in Blanks, t \in Tails}

(***************************************************************************)
(* State.                                                                  *)
(***************************************************************************)
VARIABLES
    prop,               \* the property this session sets
    dev,                \* the device's value of prop, in wire units
    borrow,             \* the caller holding the &mut Focus borrow, 0: none
    pc,                 \* pc[c]: where caller c is in its operation
    call,               \* call[c]: the operation of c, its argument and stage
    cmd,                \* cmd[c]: the command line c writes next
    result,             \* result[c]: what the operation of c returned
    response_buffer,    \* Focus::response_buffer
    wire,               \* bytes the device sent that no read returned yet
    wire_src,           \* for each byte of wire, the caller whose command caused it
    inbox,              \* command lines written that the device has not handled
    events,             \* events[c]: the writes and reads of c's operation
    received,           \* the bytes stream.read returned during this Focus::read
    split,              \* whether they came in more than one read
    last,               \* how the last loop iteration of Focus::read ended
    reply,              \* what the device sent during the running operation
    got_src             \* got_src[c]: whose responses c's operation has consumed

focus_vars == <<prop, dev, borrow, pc, call, cmd, result, response_buffer, wire,
                wire_src, inbox, events, received, split, last, reply, got_src>>

\* the firmware pipeline: the Intel-HEX text and what was made of it
VARIABLES
    file_lines,         \* the lines of file_content, as par_lines yields them
    decoded             \* what ihex_decode_lines returned

hex_vars == <<file_lines, decoded>>

VARIABLES
    rpos,               \* resolve_addresses: how many records it has passed
    segment,            \* the active segment offset
    linear,             \* the active linear offset
    plan,               \* the FlashPlan's resolved records
    total               \* the FlashPlan's running total byte count

resolve_vars == <<rpos, segment, linear, plan, total>>

\* the flash sequencer of the primary MCU
VARIABLES
    flash_plan,         \* the plan's records, each payload as its length
    fpc,                \* the sequencer's next step
    group,              \* the records of the group that is being transferred
    next_rec,           \* the plan record to transfer next
    log,                \* this session's commands sent and acknowledgements received
    error,              \* the error that ended the session
    sessions            \* how many sessions were started

flash_vars == <<flash_plan, fpc, group, next_rec, log, error, sessions>>

\* the side-controller chunk framer
VARIABLES
    fw_skip,            \* how many 256-byte slices of firmware.bytes lie before fw_bytes
    fw_bytes,           \* the rest of firmware.bytes
    framed,             \* the chunk each worker has made of its slice, <<>> before
    arrival,            \* the slices in the order their workers finished
    prepared            \* what prepare_chunks returned

chunk_vars == <<fw_skip, fw_bytes, framed, arrival, prepared>>

\* the conversions between text and values
VARIABLES
    tx_op,              \* which conversion is applied
    tx_arg,             \* what the text is made of: a vector, or tokens and separators
    tx_text,            \* the text: the encoded vector, or the response of the device
    tx_out              \* what the conversion from text returned

text_vars == <<tx_op, tx_arg, tx_text, tx_out>>

\* the full backup and the full restore of the settings
VARIABLES
    st_op,              \* "none", "backup" or "restore"
    st_via,             \* whose: "focus" (settings_get/_set) or "flasher" (settings_backup/_restore)
    st_pos,             \* how many fields the operation has passed
    st_snap,            \* the Settings value: a field is in its domain when it is not None
    st_dev,             \* the device's value of each property, by command name
    st_log,             \* the commands that were sent, and how each call ended
    st_out              \* what the operation returned

settings_vars == <<st_op, st_via, st_pos, st_snap, st_dev, st_log, st_out>>

\* Flasher::write
VARIABLES
    wr_buffer,          \* the buffer write was called with
    wr_fail,            \* the write call of the link that fails, 0: none does
    wr_calls,           \* the buffers the link's write was called with, in order
    wr_out              \* what write returned

write_vars == <<wr_buffer, wr_fail, wr_calls, wr_out>>

\* one operation of Focus, command by command
VARIABLES
    op_call,            \* the operation and its argument
    op_todo,            \* the commands it has still to send
    op_sent,            \* the lines that were written
    op_reads,           \* how many responses were read
    op_unread,          \* how many responses are on the link, unread
    op_out              \* what the operation returned

ops_vars == <<op_call, op_todo, op_sent, op_reads, op_unread, op_out>>

host_vars == <<settings_vars, write_vars, ops_vars>>

pipeline_vars == <<hex_vars, resolve_vars, flash_vars, chunk_vars, text_vars, host_vars>>

vars == <<focus_vars, pipeline_vars>>

Callers == 1..NumCallers
NoCaller == 0
NoCall == [op |-> "none", arg |-> 0, stage |-> "none"]

\* the bytes Vec::resize may still allocate for the scratch buffer
Capacity == MaxBlocks * ReadIncrement

ErrorKinds == {"Interrupted", "TimedOut"}

\* every method of Focus takes &mut self: an operation starts only while no
\* other operation on the same instance is running
CanBorrowShared(c) == TRUE
CanBorrow(c) == borrow = NoCaller

\* the session goes on to the next command on a quiet link only
LinkQuiet == wire = <<>> /\ inbox = <<>>

\* no firmware image is being handled
HexIdle ==
    /\ file_lines = <<>>
    /\ decoded = NoResult

\* resolve_addresses has not passed any record
ResolveIdle ==
    /\ rpos = 0
    /\ segment = 0
    /\ linear = 0
    /\ plan = <<>>
    /\ total = 0
\* no record is being transferred
NoGroup == [first |-> 1, last |-> 0]
\* no flashing session was started
FlashIdle ==
    /\ flash_plan = <<>>
    /\ fpc = "idle"
    /\ group = NoGroup
    /\ next_rec = 1
    /\ log = <<>>
    /\ error = "none"
    /\ sessions = 0
\* prepare_chunks is not called
ChunkIdle ==
    /\ fw_skip = 0
    /\ fw_bytes = <<>>
    /\ framed = <<>>
    /\ arrival = <<>>
    /\ prepared = NoResult
\* no conversion is applied
TextIdle ==
    /\ tx_op = "none"
    /\ tx_arg = <<>>
    /\ tx_text = <<>>
    /\ tx_out = NoResult
\* no backup and no restore is made
SettingsIdle ==
    /\ st_op = "none"
    /\ st_via = "focus"
    /\ st_pos = 0
    /\ st_snap = <<>>
    /\ st_dev = <<>>
    /\ st_log = <<>>
    /\ st_out = NoResult
\* Flasher::write is not called
WriteIdle ==
    /\ wr_buffer = <<>>
    /\ wr_fail = 0
    /\ wr_calls = <<>>
    /\ wr_out = NoResult
\* no operation is called
NoOp == [name |-> "none", arg |-> <<>>, reported |-> 0]
OpsIdle ==
    /\ op_call = NoOp
    /\ op_todo = <<>>
    /\ op_sent = <<>>
    /\ op_reads = 0
    /\ op_unread = 0
    /\ op_out = NoResult
HostIdle == SettingsIdle /\ WriteIdle /\ OpsIdle
PipelineIdle == HexIdle /\ ResolveIdle /\ FlashIdle /\ ChunkIdle /\ TextIdle /\ HostIdle

InitCommon ==
    /\ borrow = NoCaller
    /\ pc = [c \in Callers |-> "idle"]
    /\ call = [c \in Callers |-> NoCall]
    /\ cmd = [c \in Callers |-> NoLine]
    /\ result = [c \in Callers |-> NoResult]
    /\ response_buffer = <<>>
    /\ wire = <<>>
    /\ wire_src = <<>>
    /\ inbox = <<>>
    /\ events = [c \in Callers |-> <<>>]
    /\ received = <<>>
    /\ split = FALSE
    /\ last = "none"
    /\ reply = <<>>
    /\ got_src = [c \in Callers |-> {}]

\* a session that sends commands without a value
Init ==
    /\ prop = "led_brightness_top"
    /\ dev = 0
    /\ InitCommon
    /\ PipelineIdle

\* a session that sets one property of the device
InitSet ==
    /\ prop \in Props
    /\ dev \in DevValues(prop)
    /\ InitCommon
    /\ PipelineIdle

(***************************************************************************)
(* Starting an operation.                                                  *)
(***************************************************************************)
Begin(c, op, arg, stage, line) ==
    /\ pc[c] = "idle"
    /\ CanBorrow(c)
    /\ LinkQuiet
    /\ borrow' = c
    /\ call' = [call EXCEPT ![c] = [op |-> op, arg |-> arg, stage |-> stage]]
    /\ cmd' = [cmd EXCEPT ![c] = line]
    /\ events' = [events EXCEPT ![c] = <<>>]
    /\ got_src' = [got_src EXCEPT ![c] = {}]
    /\ reply' = <<>>

\* Focus::version: command_response_string("version")
CallVersion(c) ==
    /\ Begin(c, "version", 0, "cmd", Line("version", <<>>))
    /\ pc' = [pc EXCEPT ![c] = "write"]
    /\ result' = [result EXCEPT ![c] = NoResult]
    /\ UNCHANGED <<prop, dev, response_buffer, wire, wire_src, inbox, received,
                   split, last>>
    /\ UNCHANGED pipeline_vars

\* Focus::upgrade_neuron: command_new_line("upgrade.neuron", true)
CallUpgradeNeuron(c) ==
    /\ Begin(c, "upgrade_neuron", 0, "cmd", Line("upgrade.neuron", <<>>))
    /\ pc' = [pc EXCEPT ![c] = "write"]
    /\ result' = [result EXCEPT ![c] = NoResult]
    /\ UNCHANGED <<prop, dev, response_buffer, wire, wire_src, inbox, received,
                   split, last>>
    /\ UNCHANGED pipeline_vars

\* a *_set operation up to its first command: the range check, then the getter
CallSet(c, v) ==
    /\ Begin(c, "set", v, "get", GetLine(prop))
    /\ pc' = [pc EXCEPT ![c] = IF OutOfRange(prop, v) THEN "returned" ELSE "write"]
    /\ result' = [result EXCEPT ![c] =
                     IF OutOfRange(prop, v) THEN Err("OutOfRange") ELSE NoResult]
    /\ UNCHANGED <<prop, dev, response_buffer, wire, wire_src, inbox, received,
                   split, last>>
    /\ UNCHANGED pipeline_vars

(***************************************************************************)
(* What an operation does with the outcome of Focus::read, and after a     *)
(* command that waits for no response.                                     *)
(***************************************************************************)
Goes(p, r, l, st) == [pc |-> p, result |-> r, cmd |-> l, stage |-> st]

Continue(c, res) ==
    LET op == call[c].op
        stage == call[c].stage
        arg == call[c].arg
        got == ParseGet(prop, res.val)
    IN IF ~res.ok THEN Goes("returned", res, cmd[c], stage)
       ELSE IF op = "version" THEN Goes("returned", res, cmd[c], stage)
       ELSE IF op = "upgrade_neuron" THEN Goes("returned", Ok(<<>>), cmd[c], stage)
       ELSE IF stage = "set" THEN Goes("returned", Ok(<<>>), cmd[c], stage)
       ELSE IF ~got.ok THEN Goes("returned", got, cmd[c], stage)
       ELSE IF SameValue(got.val, arg) THEN Goes("returned", Ok(<<>>), cmd[c], stage)
       ELSE Goes("write", NoResult, SetLine(prop, arg), "set")

\* whether the command just written is followed by Focus::read
ReadsResponse(c) ==
    IF call[c].op = "set" /\ call[c].stage = "set" THEN SetWaits ELSE TRUE

WriteEvent(line, res) == [kind |-> "write", line |-> line, res |-> res]
ReadEvent(res) == [kind |-> "read", line |-> NoLine, res |-> res]

(***************************************************************************)
(* Focus::write inside command_raw: write_all and flush under the stream   *)
(* lock, then (when a response is awaited) the start of Focus::read, which *)
(* clears the scratch buffer.                                              *)
(***************************************************************************)
Write(c) ==
    /\ pc[c] = "write"
    /\ \E ok \in BOOLEAN :
        IF ok
        THEN /\ inbox' = Append(inbox, [line |-> cmd[c], from |-> c])
             /\ events' = [events EXCEPT ![c] = Append(@, WriteEvent(cmd[c], Ok(<<>>)))]
             /\ IF ReadsResponse(c)
                THEN /\ pc' = [pc EXCEPT ![c] = "read"]
                     /\ result' = result
                     /\ response_buffer' = <<>>
                     /\ received' = <<>>
                     /\ split' = FALSE
                     /\ last' = "none"
                ELSE /\ pc' = [pc EXCEPT ![c] = "returned"]
                     /\ result' = [result EXCEPT ![c] = Ok(<<>>)]
                     /\ UNCHANGED <<response_buffer, received, split, last>>
        ELSE /\ events' = [events EXCEPT ![c] = Append(@, WriteEvent(cmd[c], Err("Io")))]
             /\ pc' = [pc EXCEPT ![c] = "returned"]
             /\ result' = [result EXCEPT ![c] = Err("Io")]
             /\ UNCHANGED <<inbox, response_buffer, received, split, last>>
    /\ UNCHANGED <<prop, dev, borrow, call, cmd, wire, wire_src, reply, got_src>>
    /\ UNCHANGED pipeline_vars

(***************************************************************************)
(* The device: it handles the oldest command line it has received and      *)
(* sends its reply.  A property name alone is a query, answered with the   *)
(* value and the sentinel; with arguments it stores the value and answers  *)
(* with the sentinel alone.                                                *)
(***************************************************************************)
Replies(line) ==
    IF line.name = "version" THEN Scripts
    ELSE IF line.name = "upgrade.neuron" THEN AckScripts
    ELSE IF line.args = <<>> THEN {DeviceText(prop, dev) \o eof_marker}
    ELSE {eof_marker}

DeviceReply ==
    /\ inbox # <<>>
    /\ LET h == Head(inbox)
       IN /\ \E script \in Replies(h.line) :
                /\ wire' = wire \o script
                /\ wire_src' = wire_src \o [i \in 1..Len(script) |-> h.from]
                /\ reply' = reply \o script
          /\ dev' = IF h.line.name = WireName(prop) /\ h.line.args # <<>>
                    THEN DeviceStore(prop, h.line.args)
                    ELSE dev
    /\ inbox' = Tail(inbox)
    /\ UNCHANGED <<prop, borrow, pc, call, cmd, result, response_buffer, events,
                   received, split, last, got_src>>
    /\ UNCHANGED pipeline_vars

(***************************************************************************)
(* One iteration of the loop of Focus::read.                               *)
(***************************************************************************)
Outcome(kind, bytes) == [kind |-> kind, bytes |-> bytes]

\* what stream.read may do: return no byte, fail, or return the next bytes
\* of the link, at most as many as the buffer has room for
ReadOutcomes ==
    {Outcome("zero", <<>>)}
    \cup {Outcome(k, <<>>) : k \in ErrorKinds}
    \cup {Outcome("data", SubSeq(wire, 1, n)) : n \in 1..Min(Len(wire), ReadIncrement)}

\* `Err(e) if e.kind() == ErrorKind::Interrupted => continue`
IsRetryableNever(kind) == FALSE
IsRetryable(kind) == kind = "Interrupted"

\* `if self.response_buffer.ends_with(eof_marker) { break; }`
LoopDoneOnData(buf) == buf # <<>>
LoopDone(buf) == EndsWith(buf, eof_marker)

Step(buf, status) == [buf |-> buf, status |-> status]

\* the ways the iteration may go, each the scratch buffer after it and how
\* it ends: "continue", "break", "bail" (an error is returned), "abort"
\* (resize cannot allocate) and, when the trace level is enabled, "panic"
\* (the slice [..size] of the trace! line is out of range)
ReadLoopStep(buf, o) ==
    IF Len(buf) + ReadIncrement > Capacity THEN {Step(buf, "abort")}
    ELSE IF o.kind = "zero" THEN {Step(buf \o ZeroBlock, "continue")}
    ELSE IF o.kind = "data"
    THEN LET size == Len(o.bytes)
             kept == Retain(buf \o o.bytes)
         IN {Step(kept, IF LoopDone(kept) THEN "break" ELSE "continue")}
            \cup (IF size > Len(kept) THEN {Step(kept, "panic")} ELSE {})
    ELSE IF IsRetryable(o.kind) THEN {Step(buf \o ZeroBlock, "continue")}
    ELSE {Step(buf \o ZeroBlock, "bail")}

Srcs(n) == {wire_src[i] : i \in 1..n}

ReadAttempt(c) ==
    /\ pc[c] = "read"
    /\ \E o \in ReadOutcomes : \E step \in ReadLoopStep(response_buffer, o) :
        LET n == IF step.status = "abort" THEN 0 ELSE Len(o.bytes)
            returns == step.status \in {"break", "bail"}
            res == IF step.status = "break" THEN FinishRead(step.buf) ELSE Err("Io")
            go == IF returns THEN Continue(c, res)
                  ELSE IF step.status = "continue"
                  THEN Goes("read", result[c], cmd[c], call[c].stage)
                  ELSE Goes(IF step.status = "abort" THEN "aborted" ELSE "panicked",
                            result[c], cmd[c], call[c].stage)
        IN /\ response_buffer' = IF step.status = "break"
                                 THEN StripMarkers(step.buf) ELSE step.buf
           /\ wire' = SubSeq(wire, n + 1, Len(wire))
           /\ wire_src' = SubSeq(wire_src, n + 1, Len(wire_src))
           /\ received' = received \o SubSeq(wire, 1, n)
           /\ split' = (split \/ (n > 0 /\ received # <<>>))
           /\ got_src' = [got_src EXCEPT ![c] = @ \cup Srcs(n)]
           /\ last' = IF step.status = "abort" THEN "alloc" ELSE o.kind
           /\ pc' = [pc EXCEPT ![c] = go.pc]
           /\ result' = [result EXCEPT ![c] = go.result]
           /\ cmd' = [cmd EXCEPT ![c] = go.cmd]
           /\ call' = [call EXCEPT ![c].stage = go.stage]
           /\ events' = [events EXCEPT ![c] =
                            IF returns THEN Append(@, ReadEvent(res)) ELSE @]
    /\ UNCHANGED <<prop, dev, borrow, inbox, reply>>
    /\ UNCHANGED pipeline_vars

(***************************************************************************)
(* The operation has returned: the caller takes the result and the borrow  *)
(* of the Focus instance ends.  An I/O error ends the session.             *)
(***************************************************************************)
Return(c) ==
    /\ pc[c] = "returned"
    /\ result[c].err # "Io"
    /\ pc' = [pc EXCEPT ![c] = "idle"]
    /\ borrow' = IF borrow = c THEN NoCaller ELSE borrow
    /\ call' = [call EXCEPT ![c] = NoCall]
    /\ cmd' = [cmd EXCEPT ![c] = NoLine]
    /\ result' = [result EXCEPT ![c] = NoResult]
    /\ events' = [events EXCEPT ![c] = <<>>]
    /\ got_src' = [got_src EXCEPT ![c] = {}]
    /\ received' = <<>>
    /\ split' = FALSE
    /\ last' = "none"
    /\ reply' = <<>>
    /\ UNCHANGED <<prop, dev, response_buffer, wire, wire_src, inbox>>
    /\ UNCHANGED pipeline_vars

(***************************************************************************)
(* Specifications.                                                         *)
(***************************************************************************)
FirstCaller == {1}

Next ==
    \/ \E c \in FirstCaller : CallVersion(c)
    \/ \E c \in FirstCaller : CallUpgradeNeuron(c)
    \/ \E c \in FirstCaller : Write(c)
    \/ \E c \in FirstCaller : ReadAttempt(c)
    \/ \E c \in FirstCaller : Return(c)
    \/ DeviceReply

Spec == Init /\ [][Next]_vars

\* the task that runs Focus::read is scheduled as long as it can run
FairSpec == Spec /\ \A c \in FirstCaller : WF_vars(ReadAttempt(c))

NextSet ==
    \/ \E c \in Callers : \E v \in Inputs(prop) : CallSet(c, v)
    \/ \E c \in Callers : Write(c)
    \/ \E c \in Callers : ReadAttempt(c)
    \/ \E c \in Callers : Return(c)
    \/ DeviceReply

SetterSpec == InitSet /\ [][NextSet]_vars

(***************************************************************************)
(* The claims about the framed read (checked under Spec and FairSpec).     *)
(***************************************************************************)
LastEvent(c) == events[c][Len(events[c])]

\* the operation of c has ended and the last thing it did was a Focus::read
ReadReturned(c) ==
    /\ pc[c] = "returned"
    /\ events[c] # <<>>
    /\ LastEvent(c).kind = "read"

ReadResult(c) == LastEvent(c).res

\* the device's reply to the running operation without its final sentinel
ReplyPayload == SubSeq(reply, 1, Len(reply) - Len(eof_marker))

\* the sentinel occurs in s at its very end and nowhere before
OnlyAtEnd(s) == WindowsPosition(s, eof_marker) = Len(s) - Len(eof_marker) + 1

\* the bytes of s that are not 0x00, in order
WithoutNul(s) == SelectSeq(s, LAMBDA b : b # 0)

TextOrError(t) == IF Utf8Valid(t) THEN Ok(t) ELSE Err("Utf8")

\* C1 (as amended): when the reply is a payload followed by the sentinel and
\* the reply without its 0x00 bytes holds the sentinel at its end only, then
\* however the reply is split into reads, a Focus::read that does not fail
\* with an I/O error returns only after it has received the whole reply, and
\* it returns the payload without its 0x00 bytes, trimmed of ASCII
\* whitespace at both ends (an error when that is not valid UTF-8).
C1_ReadAssemblesPayload ==
    \A c \in FirstCaller :
        (/\ ReadReturned(c)
         /\ ReadResult(c).err # "Io"
         /\ EndsWith(reply, eof_marker)
         /\ OnlyAtEnd(WithoutNul(reply)))
        => /\ received = reply
           /\ ReadResult(c) = TextOrError(Trimmed(WithoutNul(ReplyPayload)))

\* a reply "\na\n" + sentinel that came in several reads was returned as "a"
C1_Witness ==
    \E c \in FirstCaller :
        /\ ReadReturned(c)
        /\ split
        /\ reply = <<LF, ChA, LF>> \o eof_marker
        /\ ReadResult(c) = Ok(<<ChA>>)

\* C1 (as stated): for any payload that contains no sentinel, however the
\* stream payload + sentinel is split into reads, Focus::read returns the
\* payload trimmed of ASCII whitespace, and only after the full sentinel has
\* been received.
C1_AnySentinelFreePayload ==
    \A c \in FirstCaller :
        (/\ ReadReturned(c)
         /\ ReadResult(c).err # "Io"
         /\ EndsWith(reply, eof_marker)
         /\ ~Contains(ReplyPayload, eof_marker))
        => /\ received = reply
           /\ ReadResult(c) = Ok(Trimmed(ReplyPayload))

\* C2 (as stated): Focus::read stops as soon as the bytes it has accumulated
\* contain the sentinel at any position: it is never still reading while
\* they contain it.
C2_StopsOnSentinelAnywhere ==
    \A c \in FirstCaller :
        pc[c] = "read" => ~Contains(WithoutNul(response_buffer), eof_marker)

\* the device has handled the command and its reply holds no sentinel
NoSentinelComes(c) ==
    /\ pc[c] = "read"
    /\ inbox = <<>>
    /\ ~Contains(WithoutNul(reply), eof_marker)

\* C7 (as stated): if the device never sends the sentinel, Focus::read
\* eventually returns an error.
C7_ReadTimesOut ==
    \A c \in FirstCaller :
        NoSentinelComes(c) ~> (pc[c] = "returned" /\ ~result[c].ok)

\* C8: in Focus::read a zero-byte read or an Interrupted error leaves the
\* call reading with the bytes accumulated so far; an error of another kind
\* makes it return an I/O error at once, without another read attempt.
C8_RetryOrFail ==
    [][\A c \in FirstCaller :
          pc[c] = "read" =>
            /\ last' \in {"zero", "Interrupted"} =>
                  /\ pc'[c] = "read"
                  /\ WithoutNul(response_buffer') = WithoutNul(response_buffer)
                  /\ received' = received
            /\ last' = "TimedOut" =>
                  /\ pc'[c] = "returned"
                  /\ result'[c] = Err("Io")
                  /\ ReadResult(c)' = Err("Io")]_vars

\* a read attempt was interrupted after part of the reply had been received
C8_Witness ==
    \E c \in FirstCaller :
        /\ pc[c] = "read"
        /\ last = "Interrupted"
        /\ received # <<>>
        /\ WithoutNul(response_buffer) = received

AsciiWhitespace == {32, 9, 10, 12, 13}

\* C9: the string Focus::read returns holds no sentinel and neither starts
\* nor ends with an ASCII whitespace byte.
C9_ResultClean ==
    \A c \in FirstCaller :
        (ReadReturned(c) /\ ReadResult(c).ok) =>
            LET v == ReadResult(c).val
            IN /\ ~Contains(v, eof_marker)
               /\ v # <<>> => (v[1] \notin AsciiWhitespace
                               /\ v[Len(v)] \notin AsciiWhitespace)

\* the reply "a\r\n\r\n." + sentinel, in which one sentinel appears only
\* once another is removed, was returned as "a"
C9_Witness ==
    \E c \in FirstCaller :
        /\ ReadReturned(c)
        /\ received = NestedPayload \o eof_marker
        /\ ReadResult(c) = Ok(<<ChA>>)

\* C10 (as stated): when the device answers upgrade.neuron with only the
\* sentinel, optionally surrounded by ASCII whitespace, then once the whole
\* answer has been read the command has completed successfully.
C10_EmptyAcknowledge ==
    \A c \in FirstCaller :
        (/\ call[c].op = "upgrade_neuron"
         /\ pc[c] \in {"read", "returned"}
         /\ last = "data"
         /\ reply \in AckScripts
         /\ received = reply)
        => (pc[c] = "returned" /\ result[c] = Ok(<<>>))

(***************************************************************************)
(* The claims about the setters (checked under SetterSpec).                *)
(***************************************************************************)
\* the write calls of the operation of c, in order
Writes(c) == SelectSeq(events[c], LAMBDA e : e.kind = "write")

\* the getter of the setter of c has read the very value the caller passed
ReportedSame(c) ==
    /\ call[c].op = "set"
    /\ Len(events[c]) >= 2
    /\ events[c][2].kind = "read"
    /\ events[c][2].res.ok
    /\ ParseGet(prop, events[c][2].res.val).ok
    /\ ParseGet(prop, events[c][2].res.val).val = call[c].arg

SetterShape(c) ==
    LET e == events[c]
        n == Len(e)
    IN /\ n <= 4
       /\ n >= 1 => (e[1].kind = "write" /\ e[1].line = GetLine(prop))
       /\ n >= 2 => (e[2].kind = "read" /\ e[1].res.ok)
       /\ n >= 3 => /\ e[3].kind = "write"
                    /\ e[3].line = SetLine(prop, call[c].arg)
                    /\ e[2].res.ok
                    /\ ParseGet(prop, e[2].res.val).ok
                    /\ ParseGet(prop, e[2].res.val).val # call[c].arg
       /\ n = 4 => (e[4].kind = "read" /\ e[3].res.ok)

\* C4: every setter first writes the get query and reads its response; it
\* writes the set command if and only if the value read differs from the new
\* one, then exactly one set line, and it returns successfully only after it
\* has read one response to that line.
C4_GetCompareSet ==
    \A c \in Callers :
        call[c].op = "set" =>
            /\ SetterShape(c)
            /\ (pc[c] = "returned" /\ result[c].ok) =>
                  IF ReportedSame(c) THEN Len(events[c]) = 2
                  ELSE Len(events[c]) = 4 /\ events[c][4].res.ok

\* a setter has returned after writing the set command and reading its response
C4_Witness ==
    \E c \in Callers :
        /\ call[c].op = "set"
        /\ pc[c] = "returned"
        /\ result[c].ok
        /\ Len(events[c]) = 4

\* the value is above the limit of the property (a Duration is above a limit
\* in seconds when it is longer than that many seconds)
ExceedsLimit(p, v) ==
    IF Kind(p) = "secs"
    THEN v.secs > Limit(p) \/ (v.secs = Limit(p) /\ v.nanos > 0)
    ELSE v > Limit(p)

\* the value counted in the unit of the wire (whole seconds for a Duration)
\* is above the limit of the property
WholeUnitsExceedLimit(p, v) ==
    IF Kind(p) = "secs" THEN v.secs > Limit(p) ELSE v > Limit(p)

\* C5 (as amended): a range-validated setter given a value that, counted in
\* whole units of the wire (whole seconds for the idle-time setters), is
\* above the limit returns an error and writes nothing, neither the get
\* query nor the set command; any other value, the limit itself included,
\* is not rejected.
C5_RejectsWholeUnitsAboveLimit ==
    \A c \in Callers :
        (call[c].op = "set" /\ Limit(prop) # NoMax) =>
            IF WholeUnitsExceedLimit(prop, call[c].arg)
            THEN /\ pc[c] = "returned"
                 /\ result[c] = Err("OutOfRange")
                 /\ events[c] = <<>>
                 /\ inbox = <<>>
            ELSE result[c].err # "OutOfRange"

\* an idle-time setter given 65001 s has returned the error, nothing written
C5_Witness ==
    \E c \in Callers :
        /\ prop = "led_idle_time_limit"
        /\ call[c].op = "set"
        /\ call[c].arg = from_secs(MaxIdleSeconds + 1)
        /\ pc[c] = "returned"
        /\ result[c] = Err("OutOfRange")
        /\ events[c] = <<>>

\* C5 (as stated): a range-validated setter given a value above the limit
\* returns an error and writes nothing; a value up to the limit is not
\* rejected.
C5_RejectsAboveLimit ==
    \A c \in Callers :
        (call[c].op = "set" /\ Limit(prop) # NoMax) =>
            IF ExceedsLimit(prop, call[c].arg)
            THEN /\ pc[c] = "returned"
                 /\ result[c] = Err("OutOfRange")
                 /\ events[c] = <<>>
            ELSE result[c].err # "OutOfRange"

\* C37: after a stream.read that returned bytes, and before the sentinel is
\* removed and the text trimmed, the bytes Focus::read has accumulated are
\* the bytes received so far, in order: no padding zero among them and no
\* received byte, 0x00 included, dropped.
C37_AccumulatedIsReceived ==
    \A c \in Callers :
        (pc[c] = "read" /\ last = "data") => response_buffer = received

\* the getter of the duration setter of c has read a value that, in the
\* unit of the wire, is the duration the caller passed
ReportedSameOnWire(c) ==
    /\ call[c].op = "set"
    /\ Kind(prop) \in {"millis", "secs"}
    /\ Len(events[c]) >= 2
    /\ events[c][2].kind = "read"
    /\ events[c][2].res.ok
    /\ ParseGet(prop, events[c][2].res.val).ok
    /\ SetArgs(prop, ParseGet(prop, events[c][2].res.val).val) = SetArgs(prop, call[c].arg)

\* C35: a duration setter given a duration that, in the unit of the wire
\* (milliseconds for superkeys_wait_for, seconds for led_idle_time_limit),
\* equals the value the device reports writes no set command, also when
\* the duration has a fraction below that unit.
C35_NoSetWhenWireValueEqual ==
    \A c \in Callers :
        ReportedSameOnWire(c) =>
            \A k \in DOMAIN events[c] :
                (events[c][k].kind = "write" /\ events[c][k].res.ok)
                    => events[c][k].line = GetLine(prop)

Panic == [ok |-> FALSE, val |-> <<>>, err |-> "panic"]

\* char::to_digit(16), -1 for None
to_digit(ch) ==
    IF ch >= Digit0 /\ ch <= Digit0 + 9 THEN ch - Digit0
    ELSE IF ch >= ChA /\ ch <= ChA + 5 THEN ch - ChA + 10
    ELSE IF ch >= 65 /\ ch <= 70 THEN ch - 65 + 10
    ELSE 0 - 1

RECURSIVE HexValue(_, _)
HexValue(digits, acc) ==
    IF digits = <<>> THEN acc
    ELSE HexValue(Tail(digits), acc * 16 + to_digit(digits[1]))

\* usize/u16/u8::from_str_radix(src, 16): an optional '+', then at least one
\* digit, only hex digits of either case (the slices taken are too short to
\* overflow the type)
from_str_radix(src) ==
    IF src = <<>> THEN Err("Decode")
    ELSE LET digits == IF src[1] = PLUS THEN Tail(src) ELSE src
         IN IF digits = <<>> \/ \E i \in 1..Len(digits) : to_digit(digits[i]) < 0
            THEN Err("Decode")
            ELSE Ok(HexValue(digits, 0))

\* &line[a..b] with 0-based a, b: it panics unless a <= b <= line.len()
CanSlice(line, a, b) == a <= b /\ b <= Len(line)
Slice(line, a, b) == SubSeq(line, a + 1, b)

\* RecordType
DAT == <<"DAT">>
ESA == <<"ESA">>
ELA == <<"ELA">>
Unknown(b) == <<"Unknown", b>>

\* the match on record_byte
RecordTypeSwapped(record_byte) ==
    CASE record_byte = 0 -> DAT
      [] record_byte = 2 -> ELA
      [] record_byte = 4 -> ESA
      [] OTHER -> Unknown(record_byte)
RecordTypeOf(record_byte) ==
    CASE record_byte = 0 -> DAT
      [] record_byte = 2 -> ESA
      [] record_byte = 4 -> ELA
      [] OTHER -> Unknown(record_byte)

\* byte_data: (i..line.len()).step_by(2).map(from_str_radix(&line[i..i + 2]))
\* collected into a Result: the pairs are taken in order, the first pair
\* that fails to parse ends it with the error, a last pair of one character
\* panics
RECURSIVE ByteData(_, _)
ByteData(line, i) ==
    IF i >= Len(line) THEN Ok(<<>>)
    ELSE IF ~CanSlice(line, i, i + 2) THEN Panic
    ELSE LET b == from_str_radix(Slice(line, i, i + 2))
         IN IF ~b.ok THEN b
            ELSE LET rest == ByteData(line, i + 2)
                 IN IF rest.ok THEN Ok(<<b.val>> \o rest.val) ELSE rest

DecodedHex(str, len, address, record_type, data) ==
    [str |-> str, len |-> len, address |-> address, record_type |-> record_type,
     data |-> data]

\* Flasher::ihex_decode_line
ihex_decode_line(line) ==
    IF ~CanSlice(line, 0, 2) THEN Panic
    ELSE LET byte_count == from_str_radix(Slice(line, 0, 2))
    IN IF ~byte_count.ok THEN byte_count
    ELSE IF ~CanSlice(line, 2, 6) THEN Panic
    ELSE LET address == from_str_radix(Slice(line, 2, 6))
    IN IF ~address.ok THEN address
    ELSE IF ~CanSlice(line, 6, 8) THEN Panic
    ELSE LET record_byte == from_str_radix(Slice(line, 6, 8))
    IN IF ~record_byte.ok THEN record_byte
    ELSE LET byte_data == ByteData(line, 8)
    IN IF ~byte_data.ok THEN byte_data
    ELSE Ok(DecodedHex(line, byte_count.val, address.val,
                       RecordTypeOf(record_byte.val), byte_data.val))

\* the closure of ihex_decode_lines: |line| ihex_decode_line(&line[1..])
DecodeMarked(line) ==
    IF ~CanSlice(line, 1, Len(line)) THEN Panic ELSE ihex_decode_line(Tail(line))

\* Flasher::ihex_decode_lines: every line is decoded, on any thread and in
\* any order; a line that fails makes the whole call fail and lets the lines
\* not yet started be skipped, a line that panics makes the call panic
ihex_decode_lines(lines) ==
    LET r == [i \in 1..Len(lines) |-> DecodeMarked(lines[i])]
        panics == \E i \in 1..Len(lines) : r[i].err = "panic"
        fails == \E i \in 1..Len(lines) : r[i].err = "Decode"
    IN IF ~panics /\ ~fails THEN {Ok([i \in 1..Len(lines) |-> r[i].val])}
       ELSE (IF panics THEN {Panic} ELSE {}) \cup (IF fails THEN {Err("Decode")} ELSE {})

(***************************************************************************)
(* Firmware files: Intel-HEX lines built from their fields, and damaged    *)
(* ones.                                                                   *)
(***************************************************************************)
MaxData == 2
MaxLines == 3

\* ':' the record marker, 'G' a character that is no hex digit
Colon == 58
ChG == 71

\* a value below 16 as an upper-case hex digit, a byte as two of them
HexDigitChar(d) == IF d < 10 THEN Digit0 + d ELSE 65 + (d - 10)
HexByte(b) == <<HexDigitChar(b \div 16), HexDigitChar(b % 16)>>
RECURSIVE HexBytes(_)
HexBytes(bytes) ==
    IF bytes = <<>> THEN <<>> ELSE HexByte(bytes[1]) \o HexBytes(Tail(bytes))
\* the same text with its letters in lower case
LowerCase(text) ==
    [i \in 1..Len(text) |-> IF text[i] >= 65 /\ text[i] <= 70 THEN text[i] + 32 ELSE text[i]]

RECURSIVE SumBytes(_)
SumBytes(bytes) == IF bytes = <<>> THEN 0 ELSE bytes[1] + SumBytes(Tail(bytes))
\* the Intel-HEX checksum: the two's complement of the sum of the record's bytes
Checksum(bytes) == (256 - (SumBytes(bytes) % 256)) % 256

\* the bytes of a record before its checksum
RecordBody(byte_count, address, record_byte, data) ==
    <<byte_count, address \div 256, address % 256, record_byte>> \o data
\* the line of a record: marker, byte count, address, type, payload, checksum
Framed(body, sum) == <<Colon>> \o HexBytes(body \o <<sum>>)
RecordLine(address, record_byte, data) ==
    LET body == RecordBody(Len(data), address, record_byte, data)
    IN Framed(body, Checksum(body))

Addresses == {0, 4660, 65535}
RecordBytes == {0, 1, 2, 4, 255}
\* (payload bytes below 128: a linear offset is the payload times 65536)
DataBytes == {0, 90}
Datas == BSeq(DataBytes, MaxData)
Fields == [address : Addresses, record_byte : RecordBytes, data : Datas]
LineOf(f) == RecordLine(f.address, f.record_byte, f.data)
WellFormedLines == {LineOf(f) : f \in Fields} \cup {LowerCase(LineOf(f)) : f \in Fields}

\* one record, and the ways of damaging its line
BaseFields == [address |-> 4660, record_byte |-> 0, data |-> <<171, 16>>]
BaseBody == RecordBody(2, 4660, 0, <<171, 16>>)
BaseLine == LineOf(BaseFields)
Truncated == {SubSeq(BaseLine, 1, n) : n \in 0..(Len(BaseLine) - 1)}
BadDigit == {[BaseLine EXCEPT ![i] = ch] : i \in 2..Len(BaseLine), ch \in {ChG, PLUS}}
WrongChecksum == {Framed(BaseBody, (Checksum(BaseBody) + 1) % 256)}
\* a payload one byte shorter than the byte count says, the checksum right
ShortBody == RecordBody(2, 4660, 0, <<171>>)
ShortPayload == {Framed(ShortBody, Checksum(ShortBody)), <<Colon>> \o HexBytes(ShortBody)}
DamagedLines == Truncated \cup BadDigit \cup WrongChecksum \cup ShortPayload

\* the records that firmware images of more than one line are made of: data
\* records, both kinds of address directive, an end-of-file record and a
\* start address record
ImageFields ==
    { [address |-> 4660, record_byte |-> 0, data |-> <<171>>],
      [address |-> 16, record_byte |-> 0, data |-> <<1, 2>>],
      [address |-> 0, record_byte |-> 2, data |-> <<16, 0>>],
      [address |-> 0, record_byte |-> 4, data |-> <<0, 2>>],
      [address |-> 0, record_byte |-> 1, data |-> <<>>],
      [address |-> 0, record_byte |-> 5, data |-> <<0, 0, 0, 1>>] }
\* their lines, and three damaged lines
ImageLines ==
    {LineOf(f) : f \in ImageFields}
        \cup {<<>>, SubSeq(BaseLine, 1, 4), [BaseLine EXCEPT ![10] = ChG]}
Texts == {<<l>> : l \in WellFormedLines \cup DamagedLines} \cup BSeq(ImageLines, MaxLines)

(***************************************************************************)
(* The decoder applied to a firmware file.                                 *)
(***************************************************************************)
InitHex ==
    /\ prop = "led_brightness_top"
    /\ dev = 0
    /\ InitCommon
    /\ file_lines \in Texts
    /\ decoded = NoResult
    /\ ResolveIdle
    /\ FlashIdle
    /\ ChunkIdle
    /\ TextIdle
    /\ HostIdle

\* let decoded = Flasher::ihex_decode_lines(file_content)
DecodeLines ==
    /\ decoded = NoResult
    /\ decoded' \in ihex_decode_lines(file_lines)
    /\ UNCHANGED <<focus_vars, host_vars, file_lines, resolve_vars, flash_vars, chunk_vars, text_vars>>

(***************************************************************************)
(* resolve_addresses (specification 4.3): a single sequential pass over    *)
(* the decoded records that carries the segment and linear offsets.        *)
(***************************************************************************)
\* the 16-bit value that a directive record carries in its first two payload
\* bytes (0 when the record has no two bytes)
ValueField(r) == IF Len(r.data) >= 2 THEN r.data[1] * 256 + r.data[2] ELSE 0

\* the offsets after a directive of the given value
OnSegmentKeepsLinear(value, lin) == [segment |-> value * 16, linear |-> lin]
OnSegment(value, lin) == [segment |-> value * 16, linear |-> 0]
OnLinear(value, seg) == [segment |-> 0, linear |-> value * 65536]

\* the records that go into the plan: Data records; directives set the
\* offsets, Unknown records are ignored
IncludedUnlessDirective(r) == r.record_type \notin {ESA, ELA}
Included(r) == r.record_type = DAT

\* a Data record with its address promoted to the absolute address
ResolvedRecord(r, seg, lin) == [r EXCEPT !.address = r.address + seg + lin]

\* the pass takes the next record
ResolveStep ==
    /\ decoded.ok
    /\ rpos < Len(decoded.val)
    /\ LET r == decoded.val[rpos + 1]
           off == IF r.record_type = ESA THEN OnSegment(ValueField(r), linear)
                  ELSE IF r.record_type = ELA THEN OnLinear(ValueField(r), segment)
                  ELSE [segment |-> segment, linear |-> linear]
       IN /\ segment' = off.segment
          /\ linear' = off.linear
          /\ plan' = IF Included(r)
                     THEN Append(plan, ResolvedRecord(r, segment, linear))
                     ELSE plan
          /\ total' = IF Included(r) THEN total + Len(r.data) ELSE total
    /\ rpos' = rpos + 1
    /\ UNCHANGED <<focus_vars, host_vars, hex_vars, flash_vars, chunk_vars, text_vars>>

NextHex == DecodeLines \/ ResolveStep
HexSpec == InitHex /\ [][NextHex]_vars

(***************************************************************************)
(* Claims about the decoder.                                               *)
(***************************************************************************)
Decoded == decoded # NoResult
Records == IF decoded.ok THEN {decoded.val[i] : i \in 1..Len(decoded.val)} ELSE {}

\* C11: every record that ihex_decode_lines returns holds as many payload
\* bytes as its byte count says: payload.len() = byte_count.
C11_PayloadHasByteCount == \A r \in Records : Len(r.data) = r.len

\* a line as the specification describes the damaged ones: empty, a
\* character after the marker that is no hex digit, fewer than the 8 header
\* characters, an odd number of characters after the header, or fewer bytes
\* after the header than the byte count says
HasBadDigit(line) == \E i \in 2..Len(line) : to_digit(line[i]) < 0
IsTruncated(line) == Len(line) < 9 \/ (Len(line) - 9) % 2 = 1
IsShort(line) ==
    /\ ~HasBadDigit(line)
    /\ ~IsTruncated(line)
    /\ (Len(line) - 9) \div 2 < HexValue(SubSeq(line, 2, 3), 0)
Malformed(line) == HasBadDigit(line) \/ IsTruncated(line) \/ IsShort(line)

\* C12: when a line of the file is malformed (a bad hex digit, truncated, or
\* with fewer payload bytes than its byte count), ihex_decode_lines returns a
\* decode error for the whole call: it neither crashes nor returns records.
C12_MalformedIsDecodeError ==
    (Decoded /\ \E i \in 1..Len(file_lines) : Malformed(file_lines[i]))
        => decoded = Err("Decode")

\* the bytes that a text of hex digit pairs stands for
LineBytes(text) ==
    [i \in 1..(Len(text) \div 2) |-> HexValue(SubSeq(text, 2 * i - 1, 2 * i), 0)]
\* a line that is complete and whose bytes, the checksum byte included, do
\* not sum to zero modulo 256
ChecksumWrong(line) ==
    /\ ~Malformed(line)
    /\ SumBytes(LineBytes(Tail(line))) % 256 # 0

\* C13: the decoder validates the checksum of every line: when a line's
\* checksum is wrong, ihex_decode_lines returns a decode error.
C13_WrongChecksumRejected ==
    (Decoded /\ \E i \in 1..Len(file_lines) : ChecksumWrong(file_lines[i]))
        => decoded = Err("Decode")

\* the records a line was made from
FieldsOfLine(line) ==
    {f \in Fields \cup ImageFields : line \in {LineOf(f), LowerCase(LineOf(f))}}
WellFormed(line) == FieldsOfLine(line) # {}
\* the record type that the specification gives a record byte
ClaimedType(b) ==
    IF b = 0 THEN DAT ELSE IF b = 2 THEN ESA ELSE IF b = 4 THEN ELA ELSE Unknown(b)

\* C14: a file of well-formed lines is decoded, and the record of every
\* line has the byte count that the line's first two hex characters spell,
\* the 16-bit address of the next four and the record type of the two after
\* them: 00 is Data, 02 ExtendedSegmentAddress, 04 ExtendedLinearAddress,
\* any other byte b is Unknown(b).
C14_HeaderFields ==
    (Decoded /\ \A i \in 1..Len(file_lines) : WellFormed(file_lines[i]))
        => /\ decoded.ok
           /\ Len(decoded.val) = Len(file_lines)
           /\ \A i \in 1..Len(file_lines) : \A f \in FieldsOfLine(file_lines[i]) :
                  /\ decoded.val[i].len = Len(f.data)
                  /\ decoded.val[i].address = f.address
                  /\ decoded.val[i].record_type = ClaimedType(f.record_byte)
\* a file of three lines was decoded, an address directive and an unknown
\* record among them
C14_Witness ==
    /\ decoded.ok
    /\ Len(decoded.val) = 3
    /\ decoded.val[1].record_type = ELA
    /\ decoded.val[2].record_type = Unknown(5)
    /\ decoded.val[3].address = 4660
    /\ decoded.val[3].len = 1

(***************************************************************************)
(* Claims about resolve_addresses.                                         *)
(***************************************************************************)
\* the pass is over
Resolved == decoded.ok /\ rpos = Len(decoded.val)
ValidText == \A i \in 1..Len(file_lines) : WellFormed(file_lines[i])
\* the fields that line i was made from, and the lines of Data records
FieldsAt(i) == CHOOSE f \in FieldsOfLine(file_lines[i]) : TRUE
DataLines == {i \in 1..Len(file_lines) : FieldsAt(i).record_byte = 0}
DataLineAt(k) == CHOOSE i \in DataLines : Cardinality({j \in DataLines : j <= i}) = k
RECURSIVE DeclaredSum(_)
DeclaredSum(lines) ==
    IF lines = {} THEN 0
    ELSE LET i == CHOOSE j \in lines : TRUE
         IN Len(FieldsAt(i).data) + DeclaredSum(lines \ {i})
RECURSIVE PayloadSum(_)
PayloadSum(records) ==
    IF records = <<>> THEN 0 ELSE Len(records[1].data) + PayloadSum(Tail(records))
\* the offset that the directive most recently before line j makes active
ActiveOffset(j) ==
    LET before == {i \in 1..(j - 1) : FieldsAt(i).record_byte \in {2, 4}}
    IN IF before = {} THEN 0
       ELSE LET f == FieldsAt(CHOOSE i \in before : \A h \in before : h <= i)
                value == f.data[1] * 256 + f.data[2]
            IN IF f.record_byte = 2 THEN value * 16 ELSE value * 65536
AddressesResolved ==
    /\ Len(plan) = Cardinality(DataLines)
    /\ \A k \in 1..Len(plan) :
           plan[k].address = FieldsAt(DataLineAt(k)).address + ActiveOffset(DataLineAt(k))

\* C15: for a valid Intel-HEX text, ihex_decode_lines followed by
\* resolve_addresses yields resolved records whose total payload length is
\* the sum of the byte counts that the Data lines declare, and whose
\* absolute addresses are the address field plus the offset of the directive
\* most recently before them (value * 16 for a segment directive, value *
\* 65536 for a linear one, 0 when there was none).
C15_PlanOfValidText ==
    (Resolved /\ ValidText)
        => /\ PayloadSum(plan) = DeclaredSum(DataLines)
           /\ AddressesResolved

\* C16: during resolve_addresses at most one of segment and linear is
\* nonzero after any prefix of the records; a segment directive sets segment
\* to its value * 16 and linear to 0, a linear directive sets linear to its
\* value * 65536 and segment to 0, a Data or Unknown record changes neither.
C16_OffsetsExclusive ==
    /\ [](segment = 0 \/ linear = 0)
    /\ [][rpos' = rpos + 1 =>
            LET r == decoded.val[rpos']
            IN IF r.record_type = ESA
               THEN segment' = ValueField(r) * 16 /\ linear' = 0
               ELSE IF r.record_type = ELA
               THEN linear' = ValueField(r) * 65536 /\ segment' = 0
               ELSE segment' = segment /\ linear' = linear]_vars
\* a segment directive came after a linear directive and reset its offset
C16_Witness ==
    /\ rpos = 3
    /\ decoded.val[1].record_type = ELA
    /\ decoded.val[2].record_type = ESA
    /\ decoded.val[3].record_type = DAT
    /\ segment = 4096 * 16
    /\ linear = 0
    /\ Len(plan) = 1

(***************************************************************************)
(* The flash sequencer of the primary MCU (specification 4.4): one run per *)
(* flashing session over a FlashPlan.  A plan record is taken with its     *)
(* absolute address and the length of its payload; a command is logged as  *)
(* its letter and its numbers, not as its text.                            *)
(***************************************************************************)
MaxRecords == 3
MaxSessions == 2

\* the packet budget of the transfer loop
PacketSizeDoubled == 2 * 4096
PACKET_SIZE == 4096
\* Flasher::write hands the payload to the link in chunks of 200 bytes
WriteSize == 200
WriteCalls(length) == (length + WriteSize - 1) \div WriteSize

RECURSIVE SumSeq(_)
SumSeq(ns) == IF ns = <<>> THEN 0 ELSE ns[1] + SumSeq(Tail(ns))

\* plans: records that follow one another from address 0x10000 on, of half
\* the budget, of the budget and of one byte more
Lengths == {2048, 4096, 4097}
PlanOf(ls) ==
    [i \in 1..Len(ls) |-> [address |-> 65536 + SumSeq(SubSeq(ls, 1, i - 1)),
                           length |-> ls[i]]]
Plans == {PlanOf(ls) : ls \in BSeq(Lengths, MaxRecords) \ {<<>>}}

\* the combined length of the records a..b of a plan
GroupLength(p, a, b) == SumSeq([i \in 1..(b - a + 1) |-> p[a + i - 1].length])
\* the last record of the longest run of consecutive records from record
\* `from` on that fits the packet budget (from - 1 when not one record fits)
GroupLast(p, from) ==
    CHOOSE e \in (from - 1)..Len(p) :
        /\ GroupLength(p, from, e) <= PACKET_SIZE
        /\ e = Len(p) \/ GroupLength(p, from, e + 1) > PACKET_SIZE

\* what goes over the link: E<address>#, U<length>#, the payload,
\* W<address>,<length>#, S#, and the device's acknowledgement
Command(letter, address, length) == [cmd |-> letter, address |-> address, length |-> length]
Ack == Command("ack", 0, 0)
CurrentCommand ==
    CASE fpc = "send_E" -> Command("E", flash_plan[1].address, 0)
      [] fpc = "send_U" -> Command("U", 0, flash_plan[next_rec].length)
      [] fpc = "payload" -> Command("payload", 0, flash_plan[next_rec].length)
      [] fpc = "send_W" ->
             Command("W", flash_plan[next_rec].address, flash_plan[next_rec].length)
      [] fpc = "send_S" -> Command("S", 0, 0)

\* the step that follows a command that was sent
AfterSendNoEraseAck(step) ==
    CASE step = "send_E" -> "take"
      [] step = "send_U" -> "payload"
      [] step = "payload" -> "send_W"
      [] step = "send_W" -> "ack_W"
      [] step = "send_S" -> "ack_S"
AfterSendNoRecordAck(step) ==
    CASE step = "send_E" -> "ack_E"
      [] step = "send_U" -> "payload"
      [] step = "payload" -> "send_W"
      [] step = "send_W" -> "send_U"
      [] step = "send_S" -> "ack_S"
AfterSend(step) ==
    CASE step = "send_E" -> "ack_E"
      [] step = "send_U" -> "payload"
      [] step = "payload" -> "send_W"
      [] step = "send_W" -> "ack_W"
      [] step = "send_S" -> "ack_S"
\* the step that follows an error: Failed, which is terminal
AfterErrorRetry(step) == step
AfterError(step) == "failed"

\* a step of the session ends with an error or goes on
Proceed(outcome, step) ==
    /\ error' = outcome
    /\ fpc' = IF outcome = "none" THEN step ELSE AfterError(fpc)

InitFlash ==
    /\ prop = "led_brightness_top"
    /\ dev = 0
    /\ InitCommon
    /\ HexIdle
    /\ ResolveIdle
    /\ ChunkIdle
    /\ TextIdle
    /\ flash_plan \in Plans
    /\ fpc = "init"
    /\ group = NoGroup
    /\ next_rec = 1
    /\ log = <<>>
    /\ error = "none"
    /\ sessions = 1
    /\ HostIdle

\* Init: open the transport, verify the device; the image may not decode
OpenSession ==
    /\ fpc = "init"
    /\ \E outcome \in {"none", "Io", "Decode"} : Proceed(outcome, "send_E")
    /\ UNCHANGED <<focus_vars, host_vars, hex_vars, resolve_vars, chunk_vars, text_vars, flash_plan, group, next_rec,
                   log, sessions>>

\* Erase, TransferLoop, Finalize: one command is written to the link
SendCommand ==
    /\ fpc \in {"send_E", "send_U", "send_W", "send_S"}
    /\ \E outcome \in {"none", "Io"} :
           /\ Proceed(outcome, AfterSend(fpc))
           /\ log' = IF outcome = "none" THEN Append(log, CurrentCommand) ELSE log
    /\ UNCHANGED <<focus_vars, host_vars, hex_vars, resolve_vars, chunk_vars, text_vars, flash_plan, group, next_rec,
                   sessions>>

\* TransferLoop: the raw payload of the record is written (Flasher::write)
WritePayload ==
    /\ fpc = "payload"
    /\ \E failed \in 0..WriteCalls(flash_plan[next_rec].length) :
           /\ Proceed(IF failed = 0 THEN "none" ELSE "Io", AfterSend(fpc))
           /\ log' = IF failed = 0 THEN Append(log, CurrentCommand) ELSE log
    /\ UNCHANGED <<focus_vars, host_vars, hex_vars, resolve_vars, chunk_vars, text_vars, flash_plan, group, next_rec,
                   sessions>>

\* how many records an acknowledgement completes: the record of the W
\* command that it acknowledges
RecordsWrittenNone(step, outcome) == 0
RecordsWritten(step, outcome) == IF step = "ack_W" /\ outcome = "none" THEN 1 ELSE 0

\* one acknowledgement response is awaited
AwaitAck ==
    /\ fpc \in {"ack_E", "ack_W", "ack_S"}
    /\ \E outcome \in {"none", "Io", "DeviceNotAcknowledging"} :
           LET written == RecordsWritten(fpc, outcome)
           IN /\ next_rec' = next_rec + written
              /\ Proceed(outcome,
                         IF fpc = "ack_S" THEN "done"
                         ELSE IF fpc = "ack_W" /\ next_rec + 1 <= group.last
                              THEN "send_U"
                              ELSE "take")
              /\ log' = IF outcome = "none" THEN Append(log, Ack) ELSE log
    /\ UNCHANGED <<focus_vars, host_vars, hex_vars, resolve_vars, chunk_vars, text_vars, flash_plan, group, sessions>>

\* TransferLoop: take the next group of consecutive records that fits the
\* packet budget; Finalize when the plan is consumed, StalledTransfer when
\* no record fits
TakeGroup ==
    /\ fpc = "take"
    /\ LET fits == GroupLast(flash_plan, next_rec)
       IN IF next_rec > Len(flash_plan)
          THEN Proceed("none", "send_S") /\ group' = NoGroup
          ELSE IF fits < next_rec
          THEN Proceed("StalledTransfer", fpc) /\ group' = NoGroup
          ELSE Proceed("none", "send_U") /\ group' = [first |-> next_rec, last |-> fits]
    /\ UNCHANGED <<focus_vars, host_vars, hex_vars, resolve_vars, chunk_vars, text_vars, flash_plan, next_rec, log,
                   sessions>>

\* after Failed: the flash is restarted as a new session
NewSession ==
    /\ fpc = "failed"
    /\ sessions < MaxSessions
    /\ fpc' = "init"
    /\ group' = NoGroup
    /\ next_rec' = 1
    /\ log' = <<>>
    /\ error' = "none"
    /\ sessions' = sessions + 1
    /\ UNCHANGED <<focus_vars, host_vars, hex_vars, resolve_vars, chunk_vars, text_vars, flash_plan>>

NextFlash ==
    \/ OpenSession
    \/ SendCommand
    \/ WritePayload
    \/ AwaitAck
    \/ TakeGroup
    \/ NewSession
FlashSpec == InitFlash /\ [][NextFlash]_vars

\* the session's task is scheduled as long as it has a step to take, and
\* every awaited acknowledgement arrives or times out (AwaitAck ends either
\* way); whether a failed flash is started again is up to the caller
SessionStep == OpenSession \/ SendCommand \/ WritePayload \/ AwaitAck \/ TakeGroup
FairFlashSpec == FlashSpec /\ WF_vars(SessionStep)

(***************************************************************************)
(* Claims about the flash sequencer.                                       *)
(***************************************************************************)
Positions(letter) == {i \in 1..Len(log) : log[i].cmd = letter}
\* the k-th of the log's entries of a letter
NthOf(letter, k) ==
    log[CHOOSE i \in Positions(letter) :
            Cardinality({j \in Positions(letter) : j <= i}) = k]

\* C17: in a session the erase command E<address of the plan's first
\* record># is sent once, and it is sent and acknowledged before any U, W or
\* payload; S# is sent once, only after every record of the plan was written
\* and acknowledged; the session is Done only after S# was acknowledged.
C17_EraseFirstFinalizeLast ==
    /\ Cardinality(Positions("E")) <= 1
    /\ Cardinality(Positions("S")) <= 1
    /\ \A i \in Positions("E") : log[i].address = flash_plan[1].address
    /\ \A i \in Positions("U") \cup Positions("payload") \cup Positions("W") :
           /\ log[1].cmd = "E"
           /\ log[2].cmd = "ack"
           /\ i > 2
    /\ \A i \in Positions("S") :
           /\ Cardinality(Positions("W")) = Len(flash_plan)
           /\ \A k \in 1..Len(flash_plan) :
                  NthOf("W", k) = Command("W", flash_plan[k].address, flash_plan[k].length)
           /\ Cardinality({j \in Positions("ack") : j < i}) = 1 + Len(flash_plan)
           /\ log[i - 1].cmd = "ack"
    /\ fpc = "done" =>
           /\ Cardinality(Positions("E")) = 1
           /\ Len(log) >= 2
           /\ log[Len(log) - 1].cmd = "S"
           /\ log[Len(log)].cmd = "ack"
\* a session of three records is Done
C17_Witness ==
    /\ fpc = "done"
    /\ Len(flash_plan) = 3
    /\ Cardinality(Positions("W")) = 3

\* what goes over the link for one record, and for the records of a plan
RecordExchange(r) ==
    <<Command("U", 0, r.length), Command("payload", 0, r.length),
      Command("W", r.address, r.length), Ack>>
RECURSIVE Exchanges(_)
Exchanges(p) == IF p = <<>> THEN <<>> ELSE RecordExchange(p[1]) \o Exchanges(Tail(p))
\* the log after the erase and its acknowledgement, up to S#
TransferLog ==
    LET upto == IF Positions("S") = {} THEN Len(log)
                ELSE (CHOOSE i \in Positions("S") : TRUE) - 1
    IN SubSeq(log, 3, upto)
IsPrefix(a, b) == Len(a) <= Len(b) /\ a = SubSeq(b, 1, Len(a))

\* C18: the records are transferred in plan order, each as U<length>#, its
\* raw payload, W<address>,<length># and then one acknowledgement: none is
\* awaited between U and W, and the next record's U is not sent before the
\* acknowledgement of the record before it was received.
C18_RecordExchange == IsPrefix(TransferLog, Exchanges(flash_plan))
\* the second record of a group is about to be sent, the first was acknowledged
C18_Witness ==
    /\ fpc = "send_U"
    /\ next_rec = 2
    /\ group = [first |-> 1, last |-> 2]
    /\ TransferLog = RecordExchange(flash_plan[1])

\* C19: the records of every group that the transfer loop takes have a
\* combined length of at most 4096 bytes; when the next record alone is
\* longer, the session ends with StalledTransfer: the record is not sent and
\* the loop does not go on.
C19_PacketBudget ==
    /\ [](/\ GroupLength(flash_plan, group.first, group.last) <= 4096
          /\ \A i \in 1..Len(log) : log[i].length <= 4096)
    /\ [][(fpc = "take" /\ next_rec <= Len(flash_plan)
                /\ flash_plan[next_rec].length > 4096)
            => (fpc' = "failed" /\ error' = "StalledTransfer" /\ log' = log)]_vars
\* a record was written, then the session stalled on a record of 4097 bytes
C19_Witness ==
    /\ fpc = "failed"
    /\ error = "StalledTransfer"
    /\ next_rec = 2
    /\ flash_plan[2].length = 4097
    /\ Cardinality(Positions("W")) = 1

\* C20: an I/O error, a decode error or an acknowledgement that does not
\* come moves the session to Failed; from Failed nothing more is sent (no U,
\* no W, no S#) and the session is not taken up again in the middle: all
\* that follows is a new session, which starts from the beginning, its first
\* command the erase.
C20_FailedIsTerminal ==
    /\ [](error # "none" => fpc = "failed")
    /\ [](log # <<>> => log[1].cmd = "E")
    /\ [][fpc = "failed" =>
            /\ fpc' = "init"
            /\ next_rec' = 1
            /\ group' = NoGroup
            /\ log' = <<>>]_vars
\* a session failed after its first record was written, and the session
\* started after it has erased again and is writing the first record
C20_Witness ==
    /\ sessions = 2
    /\ fpc = "send_W"
    /\ next_rec = 1
    /\ log = <<Command("E", flash_plan[1].address, 0), Ack,
               Command("U", 0, flash_plan[1].length),
               Command("payload", 0, flash_plan[1].length)>>

(***************************************************************************)
(* The side-controller chunk framer (side_flasher.rs, prepare_chunks).     *)
(***************************************************************************)
MaxChunks == 3
\* let data_size = 256
data_size == 256

\* the bitwise exclusive or of two naturals
RECURSIVE Xor(_, _)
Xor(a, b) ==
    IF a = 0 THEN b
    ELSE IF b = 0 THEN a
    ELSE 2 * Xor(a \div 2, b \div 2) + ((a + b) % 2)

\* a u32 as its two 16-bit halves
Word(hi, lo) == [hi |-> hi, lo |-> lo]
XorWord(x, y) == Word(Xor(x.hi, y.hi), Xor(x.lo, y.lo))
Shr1(x) == Word(x.hi \div 2, (x.hi % 2) * 32768 + x.lo \div 2)
Shr8(x) == Word(x.hi \div 256, (x.hi % 256) * 256 + x.lo \div 256)
\* u32::to_le_bytes
WordLeBytes(x) == <<x.lo % 256, x.lo \div 256, x.hi % 256, x.hi \div 256>>

\* crc32fast::Hasher: the CRC-32 of IEEE 802.3 (reflected polynomial
\* 0xEDB88320, register preset to and result inverted with 0xFFFFFFFF)
RECURSIVE CrcEntry(_, _)
CrcEntry(x, k) ==
    IF k = 0 THEN x
    ELSE CrcEntry(IF x.lo % 2 = 1 THEN XorWord(Shr1(x), Word(60856, 33568)) ELSE Shr1(x),
                  k - 1)
CrcTable == [b \in 0..255 |-> CrcEntry(Word(0, b), 8)]
\* the register after the bytes a..b, taken in order (the range is halved
\* and the register of the first half is evaluated before the second half is
\* begun, which keeps the evaluation shallow)
RECURSIVE CrcUpdate(_, _, _, _)
CrcUpdate(crc, bytes, a, b) ==
    IF a > b THEN crc
    ELSE IF a = b
    THEN XorWord(CrcTable[Xor(crc.lo % 256, bytes[a])], Shr8(crc))
    ELSE LET half == CrcUpdate(crc, bytes, a, (a + b) \div 2)
         IN IF half.lo >= 0 THEN CrcUpdate(half, bytes, (a + b) \div 2 + 1, b) ELSE half
Crc32(bytes) ==
    XorWord(CrcUpdate(Word(65535, 65535), bytes, 1, Len(bytes)), Word(65535, 65535))

\* ((index * data_size) as u32).to_le_bytes(): the product modulo 2^32, as
\* its four bytes (the product itself can exceed 32 bits)
OffsetLeBytes(index) ==
    <<0, index % 256, (index \div 256) % 256, (index \div 65536) % 256>>
\* (data.len() as u32).to_le_bytes()
LengthLeBytes(n) == WordLeBytes(Word(n \div 65536, n % 65536))

\* what the trailing CRC is computed over
CrcInputWithHeader(header, data) == header \o data
CrcInput(header, data) == data

\* the closure of prepare_chunks: the chunk of slice `index`
FrameChunk(index, data) ==
    LET header == OffsetLeBytes(index) \o LengthLeBytes(Len(data))
    IN header \o data \o WordLeBytes(Crc32(CrcInput(header, data)))

\* par_chunks(data_size): how many slices, and slice k (from 1)
SliceCount(bytes) == (Len(bytes) + data_size - 1) \div data_size
SliceOf(bytes, k) == SubSeq(bytes, (k - 1) * data_size + 1, Min(k * data_size, Len(bytes)))

\* collect() of the indexed parallel iterator: every chunk in the place of
\* its slice, whenever its worker finished
CollectedAsArrived(chunks, order) == [k \in 1..Len(chunks) |-> chunks[order[k]]]
Collected(chunks, order) == chunks

\* firmware images: of no, one and several slices, the last one whole or
\* not (600 bytes among them), with all bytes equal or all slices different,
\* alone or after 2^24 - 1 slices of an image of 4 GiB
ImageLengths ==
    {0, 1, data_size - 1, data_size + 1}
        \cup {k * data_size : k \in 1..(MaxChunks - 1)}
        \cup {k * data_size + 88 : k \in 0..(MaxChunks - 1)}
\* the text "123456789", whose CRC-32 is known to be 0xCBF43926
CheckText == <<49, 50, 51, 52, 53, 54, 55, 56, 57>>
Images ==
    {[p \in 1..n |-> 7] : n \in ImageLengths}
        \cup {[p \in 1..n |-> (p + p \div data_size) % 251] : n \in ImageLengths}
        \cup {CheckText}
FarSkip == 16777216 - 1

InitChunks ==
    /\ prop = "led_brightness_top"
    /\ dev = 0
    /\ InitCommon
    /\ HexIdle
    /\ ResolveIdle
    /\ FlashIdle
    /\ TextIdle
    /\ fw_skip \in {0, FarSkip}
    /\ fw_bytes \in Images
    /\ framed = [k \in 1..SliceCount(fw_bytes) |-> <<>>]
    /\ arrival = <<>>
    /\ prepared = NoResult
    /\ HostIdle

\* a worker frames one slice
FrameSlice ==
    /\ prepared = NoResult
    /\ \E k \in 1..SliceCount(fw_bytes) :
           /\ framed[k] = <<>>
           /\ framed' = [framed EXCEPT ![k] = FrameChunk(fw_skip + k - 1, SliceOf(fw_bytes, k))]
           /\ arrival' = Append(arrival, k)
    /\ UNCHANGED <<focus_vars, host_vars, hex_vars, resolve_vars, flash_vars, text_vars, fw_skip, fw_bytes,
                   prepared>>

\* all slices are framed: Ok(chunks)
CollectChunks ==
    /\ prepared = NoResult
    /\ \A k \in 1..SliceCount(fw_bytes) : framed[k] # <<>>
    /\ prepared' = Ok(Collected(framed, arrival))
    /\ UNCHANGED <<focus_vars, host_vars, hex_vars, resolve_vars, flash_vars, text_vars, fw_skip, fw_bytes,
                   framed, arrival>>

NextChunks == FrameSlice \/ CollectChunks
ChunkSpec == InitChunks /\ [][NextChunks]_vars

(***************************************************************************)
(* Claims about the chunk framer.                                          *)
(***************************************************************************)
\* the fields of a serialized chunk; the offset field divided by 256 (the
\* field itself can exceed 31 bits) and its remainder
OffsetPages(chunk) == chunk[2] + 256 * chunk[3] + 65536 * chunk[4]
OffsetRest(chunk) == chunk[1]
LengthField(chunk) == chunk[5] + 256 * chunk[6] + 65536 * chunk[7] + 16777216 * chunk[8]
DataField(chunk) == SubSeq(chunk, 9, Len(chunk) - 4)
CrcField(chunk) == SubSeq(chunk, Len(chunk) - 3, Len(chunk))
RECURSIVE ConcatData(_)
ConcatData(chunks) ==
    IF chunks = <<>> THEN <<>> ELSE DataField(chunks[1]) \o ConcatData(Tail(chunks))
\* chunk k of the result is the chunk of slice fw_skip + k - 1 of the image
IndexOf(k) == fw_skip + k - 1

\* C21 as amended: for every input prepare_chunks returns one chunk per
\* slice of 256 bytes, in slice order whatever the order in which the workers
\* finish; the offset field of chunk i holds i * 256 modulo 2^32, its length
\* field min(256, n - i * 256), and the chunks' data fields together are the
\* input.
C21_ChunksCoverInputMod32 ==
    prepared.ok =>
        /\ Len(prepared.val) = SliceCount(fw_bytes)
        /\ \A k \in 1..Len(prepared.val) :
               /\ OffsetRest(prepared.val[k]) = 0
               /\ OffsetPages(prepared.val[k]) = IndexOf(k) % 16777216
               /\ LengthField(prepared.val[k]) = Min(256, Len(fw_bytes) - (k - 1) * 256)
        /\ ConcatData(prepared.val) = fw_bytes
\* 600 bytes, the worker of the last slice finished first: three chunks with
\* offsets 0, 256, 512 and lengths 256, 256, 88
C21_Witness ==
    /\ prepared.ok
    /\ fw_skip = 0
    /\ Len(fw_bytes) = 600
    /\ arrival = <<3, 1, 2>>
    /\ Len(prepared.val) = 3
    /\ \A k \in 1..3 : OffsetPages(prepared.val[k]) = k - 1
    /\ LengthField(prepared.val[3]) = 88

\* C21: for every input prepare_chunks returns one chunk per slice of 256
\* bytes (ceil(n / 256) chunks), in ascending offset order whatever the order
\* in which the workers finish; chunk i carries offset i * 256 and length
\* min(256, n - i * 256), and the chunks' data fields together are the input.
C21_ChunksCoverInput ==
    prepared.ok =>
        /\ Len(prepared.val) = SliceCount(fw_bytes)
        /\ \A k \in 1..Len(prepared.val) :
               /\ OffsetRest(prepared.val[k]) = 0
               /\ OffsetPages(prepared.val[k]) = IndexOf(k)
               /\ LengthField(prepared.val[k]) = Min(256, Len(fw_bytes) - (k - 1) * 256)
        /\ ConcatData(prepared.val) = fw_bytes

\* C22: every chunk is offset (4 bytes, little-endian), length (4 bytes,
\* little-endian), the data of its slice and the CRC-32 of the data alone (4
\* bytes, little-endian): length + 12 bytes, at most 268; slices with equal
\* data get equal CRC trailers wherever they lie ("123456789" gets 0xCBF43926).
C22_ChunkLayout ==
    \A k \in 1..Len(framed) :
        framed[k] # <<>> =>
            /\ Len(framed[k]) = LengthField(framed[k]) + 12
            /\ Len(framed[k]) <= 268
            /\ OffsetRest(framed[k]) = 0
            /\ OffsetPages(framed[k]) = IndexOf(k) % 16777216
            /\ DataField(framed[k]) = SliceOf(fw_bytes, k)
            /\ CrcField(framed[k]) = WordLeBytes(Crc32(DataField(framed[k])))
            /\ DataField(framed[k]) = CheckText => CrcField(framed[k]) = <<38, 57, 244, 203>>
            /\ \A j \in 1..Len(framed) :
                   (framed[j] # <<>> /\ DataField(framed[j]) = DataField(framed[k]))
                       => CrcField(framed[j]) = CrcField(framed[k])
\* two full slices with the same data at different offsets are framed
C22_Witness ==
    /\ Len(framed) >= 2
    /\ Len(framed[1]) = 268
    /\ Len(framed[2]) = 268
    /\ OffsetPages(framed[1]) # OffsetPages(framed[2])
    /\ DataField(framed[1]) = DataField(framed[2])
    /\ CrcField(framed[1]) = CrcField(framed[2])

(***************************************************************************)
(* Conversions between text and values (helpers.rs, api.rs): vectors of    *)
(* numbers, RGB and RGBW vectors, boolean responses.                       *)
(***************************************************************************)
MaxVec == 3
MaxTokens == 5

RGB(v) == [r |-> v[1], g |-> v[2], b |-> v[3]]
RGBW(v) == [r |-> v[1], g |-> v[2], b |-> v[3], w |-> v[4]]
Color(v) == IF Len(v) = 3 THEN RGB(v) ELSE RGBW(v)

\* string_to_rgb_vec / string_to_rgbw_vec after split_whitespace: the tokens
\* in chunks of n, a chunk of another length or a token that does not parse
\* as u8 ends the decode with the error
RECURSIVE DecodeGroupsDropsRest(_, _)
DecodeGroupsDropsRest(tokens, n) ==
    IF Len(tokens) < n THEN Ok(<<>>)
    ELSE LET parsed == ParseTokens(SubSeq(tokens, 1, n), U8Max)
         IN IF ~parsed.ok THEN parsed
            ELSE LET rest == DecodeGroupsDropsRest(SubSeq(tokens, n + 1, Len(tokens)), n)
                 IN IF rest.ok THEN Ok(<<Color(parsed.val)>> \o rest.val) ELSE rest
RECURSIVE DecodeGroups(_, _)
DecodeGroups(tokens, n) ==
    IF tokens = <<>> THEN Ok(<<>>)
    ELSE IF Len(tokens) < n THEN Err("Count")
    ELSE LET parsed == ParseTokens(SubSeq(tokens, 1, n), U8Max)
         IN IF ~parsed.ok THEN parsed
            ELSE LET rest == DecodeGroups(SubSeq(tokens, n + 1, Len(tokens)), n)
                 IN IF rest.ok THEN Ok(<<Color(parsed.val)>> \o rest.val) ELSE rest
string_to_rgb_vec(str) == DecodeGroups(SplitWhitespace(str), 3)
string_to_rgbw_vec(str) == DecodeGroups(SplitWhitespace(str), 4)

\* format!("{} {} {}", rgb.r, rgb.g, rgb.b), format!("{} {} {} {}", .., rgbw.w)
ComponentsReversed(c) ==
    IF "w" \in DOMAIN c THEN <<c.w, c.b, c.g, c.r>> ELSE <<c.b, c.g, c.r>>
Components(c) ==
    IF "w" \in DOMAIN c THEN <<c.r, c.g, c.b, c.w>> ELSE <<c.r, c.g, c.b>>
\* rgb_vec_to_string, rgbw_vec_to_string: the formatted colors joined by " "
RECURSIVE rgb_vec_to_string(_)
rgb_vec_to_string(data) ==
    IF data = <<>> THEN <<>>
    ELSE IF Len(data) = 1 THEN numerical_vec_to_string(Components(data[1]))
    ELSE numerical_vec_to_string(Components(data[1])) \o <<SP>> \o rgb_vec_to_string(Tail(data))
rgbw_vec_to_string(data) == rgb_vec_to_string(data)

\* response.parse::<bool>() of command_response_numerical::<bool>
ParseBoolFromStr(str) ==
    IF str = <<116, 114, 117, 101>> THEN Ok(TRUE)
    ELSE IF str = <<102, 97, 108, 115, 101>> THEN Ok(FALSE)
    ELSE Err("Parse")

\* the text that has not been made yet
NoText == <<0 - 1>>

\* vectors of the target types, the specification's example among them
VecsU8 == BSeq({0, 9, 10, U8Max}, MaxVec) \cup {<<41, 30, 31, 32, 33, 34, 35, 0, 0>>}
VecsU16 == BSeq({0, 256, U16Max}, MaxVec)
\* tokens with the number they stand for (-1: none in 0..255): "0", "255",
\* "256", "x", "+5"
Tokens ==
    { [text |-> <<48>>, value |-> 0], [text |-> <<50, 53, 53>>, value |-> U8Max],
      [text |-> <<50, 53, 54>>, value |-> 0 - 1], [text |-> <<120>>, value |-> 0 - 1],
      [text |-> <<PLUS, 53>>, value |-> 5] }
\* "255 196 0 0 0 254 24 0 0"
ExampleTokens ==
    [i \in 1..9 |-> LET v == <<255, 196, 0, 0, 0, 254, 24, 0, 0>>[i]
                    IN [text |-> FormatDec(v), value |-> v]]
ColorArgs ==
    {[tokens |-> t, sep |-> <<SP>>] : t \in BSeq(Tokens, MaxTokens)}
        \cup {[tokens |-> SubSeq(ExampleTokens, 1, n), sep |-> x] :
                  n \in 8..9, x \in {<<SP>>, <<SP, SP>>, <<TAB>>, <<CR, LF>>}}
RECURSIVE JoinTokens(_, _)
JoinTokens(tokens, sep) ==
    IF tokens = <<>> THEN <<>>
    ELSE IF Len(tokens) = 1 THEN tokens[1].text
    ELSE tokens[1].text \o sep \o JoinTokens(Tail(tokens), sep)
\* vectors of colors: of up to MaxVec colors, and those of the tests
ColorsRGB == {RGB(<<0, 10, 255>>), RGB(<<255, 196, 0>>), RGB(<<7, 7, 7>>)}
ColorsRGBW == {RGBW(<<0, 10, 255, 100>>), RGBW(<<255, 196, 0, 0>>), RGBW(<<7, 7, 7, 7>>)}
VecsRGB ==
    BSeq(ColorsRGB, MaxVec)
        \cup {<<RGB(<<41, 30, 31>>), RGB(<<32, 33, 34>>), RGB(<<35, 212, 10>>)>>}
VecsRGBW == BSeq(ColorsRGBW, MaxVec)
\* responses to a boolean query: "", "0", "1", "false", "true", "2", "True",
\* "10", "yes"
BoolResponses ==
    { <<>>, <<48>>, <<49>>, <<102, 97, 108, 115, 101>>, <<116, 114, 117, 101>>, <<50>>,
      <<84, 114, 117, 101>>, <<49, 48>>, <<121, 101, 115>> }

InitText ==
    /\ prop = "led_brightness_top"
    /\ dev = 0
    /\ InitCommon
    /\ HexIdle
    /\ ResolveIdle
    /\ FlashIdle
    /\ ChunkIdle
    /\ tx_op \in {"vec_u8", "vec_u16", "vec_rgb", "vec_rgbw", "rgb", "rgbw", "bool",
                  "settings_valid"}
    /\ tx_arg \in CASE tx_op = "vec_u8" -> VecsU8
                    [] tx_op = "vec_u16" -> VecsU16
                    [] tx_op = "vec_rgb" -> VecsRGB
                    [] tx_op = "vec_rgbw" -> VecsRGBW
                    [] tx_op \in {"rgb", "rgbw"} -> ColorArgs
                    [] OTHER -> BoolResponses
    /\ tx_text = CASE tx_op \in {"vec_u8", "vec_u16", "vec_rgb", "vec_rgbw"} -> NoText
                   [] tx_op \in {"rgb", "rgbw"} -> JoinTokens(tx_arg.tokens, tx_arg.sep)
                   [] OTHER -> tx_arg
    /\ tx_out = NoResult
    /\ HostIdle

\* numerical_vec_to_string(&data)
EncodeVec ==
    /\ tx_op \in {"vec_u8", "vec_u16"}
    /\ tx_text = NoText
    /\ tx_text' = numerical_vec_to_string(tx_arg)
    /\ UNCHANGED <<focus_vars, host_vars, hex_vars, resolve_vars, flash_vars, chunk_vars, tx_op,
                   tx_arg, tx_out>>

\* string_to_numerical_vec::<u8 or u16>(&text)
DecodeVec ==
    /\ tx_op \in {"vec_u8", "vec_u16"}
    /\ tx_text # NoText
    /\ tx_out = NoResult
    /\ tx_out' = string_to_numerical_vec(tx_text, IF tx_op = "vec_u8" THEN U8Max ELSE U16Max)
    /\ UNCHANGED <<focus_vars, host_vars, hex_vars, resolve_vars, flash_vars, chunk_vars, tx_op,
                   tx_arg, tx_text>>

\* rgb_vec_to_string(&data), rgbw_vec_to_string(&data)
EncodeColors ==
    /\ tx_op \in {"vec_rgb", "vec_rgbw"}
    /\ tx_text = NoText
    /\ tx_text' = IF tx_op = "vec_rgb" THEN rgb_vec_to_string(tx_arg)
                  ELSE rgbw_vec_to_string(tx_arg)
    /\ UNCHANGED <<focus_vars, host_vars, hex_vars, resolve_vars, flash_vars, chunk_vars, tx_op,
                   tx_arg, tx_out>>

\* string_to_rgb_vec(&text), string_to_rgbw_vec(&text)
DecodeColors ==
    /\ tx_op \in {"rgb", "rgbw", "vec_rgb", "vec_rgbw"}
    /\ tx_text # NoText
    /\ tx_out = NoResult
    /\ tx_out' = IF tx_op \in {"rgb", "vec_rgb"} THEN string_to_rgb_vec(tx_text)
                 ELSE string_to_rgbw_vec(tx_text)
    /\ UNCHANGED <<focus_vars, host_vars, hex_vars, resolve_vars, flash_vars, chunk_vars, tx_op,
                   tx_arg, tx_text>>

\* command_response_bool and settings_valid make a bool of the response
AnswerBool ==
    /\ tx_op \in {"bool", "settings_valid"}
    /\ tx_out = NoResult
    /\ tx_out' = IF tx_op = "bool" THEN ParseBool(tx_text) ELSE ParseBoolFromStr(tx_text)
    /\ UNCHANGED <<focus_vars, host_vars, hex_vars, resolve_vars, flash_vars, chunk_vars, tx_op,
                   tx_arg, tx_text>>

NextText == EncodeVec \/ DecodeVec \/ EncodeColors \/ DecodeColors \/ AnswerBool
TextSpec == InitText /\ [][NextText]_vars

(***************************************************************************)
(* Claims about the conversions.                                           *)
(***************************************************************************)
\* a text of runs of digits with single spaces between them and none at
\* its ends, as many runs as the vector has values
SingleSpaced(text, count) ==
    /\ \A i \in 1..Len(text) : text[i] = SP \/ IsDigit(text[i])
    /\ Cardinality({i \in 1..Len(text) : text[i] = SP}) = (IF count = 0 THEN 0 ELSE count - 1)
    /\ \A i \in 1..Len(text) :
           text[i] = SP => /\ i > 1 /\ i < Len(text)
                           /\ text[i - 1] # SP /\ text[i + 1] # SP
    /\ (text = <<>>) = (count = 0)

\* C23: for every vector v of unsigned integers of the target type, the
\* empty one included, string_to_numerical_vec(numerical_vec_to_string(v))
\* returns v; the text is the decimal values in order with single spaces
\* between them ([41,30,31,32,33,34,35,0,0] is "41 30 31 32 33 34 35 0 0").
C23_RoundTrip ==
    tx_op \in {"vec_u8", "vec_u16"} =>
        /\ tx_text # NoText => SingleSpaced(tx_text, Len(tx_arg))
        /\ (tx_text # NoText /\ tx_arg = <<41, 30, 31, 32, 33, 34, 35, 0, 0>>)
               => tx_text = <<52, 49, 32, 51, 48, 32, 51, 49, 32, 51, 50, 32, 51, 51, 32,
                              51, 52, 32, 51, 53, 32, 48, 32, 48>>
        /\ tx_out # NoResult => tx_out = Ok(tx_arg)
\* a vector of three u16 values with the largest among them came back
C23_Witness ==
    /\ tx_op = "vec_u16"
    /\ tx_arg = <<U16Max, 0, 256>>
    /\ tx_text = <<54, 53, 53, 51, 53, 32, 48, 32, 50, 53, 54>>
    /\ tx_out = Ok(tx_arg)

\* the number of values in a group of the conversion
GroupSize == IF tx_op = "rgb" THEN 3 ELSE 4
\* the tokens can be grouped and every one is a number in 0..255
Groupable ==
    /\ Len(tx_arg.tokens) % GroupSize = 0
    /\ \A i \in 1..Len(tx_arg.tokens) : tx_arg.tokens[i].value >= 0
\* the value of token j of group g
ValueAt(g, j) == tx_arg.tokens[(g - 1) * GroupSize + j].value

\* C24: string_to_rgb_vec makes of the whitespace-separated tokens, in
\* order, groups of 3 (r, g, b), string_to_rgbw_vec groups of 4 (r, g, b, w);
\* when the number of tokens is no multiple of the group size or a token is
\* no decimal number in 0..255, the decode returns an error and no vector.
C24_ColorGroups ==
    (tx_op \in {"rgb", "rgbw"} /\ tx_out # NoResult) =>
        IF Groupable
        THEN /\ tx_out.ok
             /\ Len(tx_out.val) = Len(tx_arg.tokens) \div GroupSize
             /\ \A g \in 1..Len(tx_out.val) :
                    tx_out.val[g] =
                        IF tx_op = "rgb"
                        THEN [r |-> ValueAt(g, 1), g |-> ValueAt(g, 2), b |-> ValueAt(g, 3)]
                        ELSE [r |-> ValueAt(g, 1), g |-> ValueAt(g, 2), b |-> ValueAt(g, 3),
                              w |-> ValueAt(g, 4)]
        ELSE ~tx_out.ok /\ tx_out.val = <<>>
\* "255 196 0 0 0 254 24 0 0" with line breaks between its tokens is three
\* RGB values
C24_Witness ==
    /\ tx_op = "rgb"
    /\ tx_arg.sep = <<CR, LF>>
    /\ tx_out = Ok(<<[r |-> 255, g |-> 196, b |-> 0], [r |-> 0, g |-> 0, b |-> 254],
                     [r |-> 24, g |-> 0, b |-> 0]>>)

\* C28: every boolean query (command_response_bool and the operations built
\* on it, and settings_valid) returns false for the response "0" or "false",
\* true for "1" or "true", and an error for an empty or any other response.
C28_BoolResponses ==
    (tx_op \in {"bool", "settings_valid"} /\ tx_out # NoResult) =>
        IF tx_text \in {<<48>>, <<102, 97, 108, 115, 101>>} THEN tx_out = Ok(FALSE)
        ELSE IF tx_text \in {<<49>>, <<116, 114, 117, 101>>} THEN tx_out = Ok(TRUE)
        ELSE ~tx_out.ok

(***************************************************************************)
(* The settings snapshot: nrf52833_flasher.rs settings_backup and          *)
(* settings_restore, api.rs settings_get and settings_set.  Both pass the  *)
(* fields of Settings in one fixed order, a getter or a setter for each.   *)
(* The model follows superkeys_overlap, whose setter checks a range, and   *)
(* the LED fields from led_brightness_top to color_map, where the required *)
(* and the optional fields alternate; the other fields are handled like    *)
(* one of these.  Every setter is the guarded setter of its property: the  *)
(* range check where there is one, the get query, and the set command when *)
(* the value read differs.                                                 *)
(***************************************************************************)
Field(name, command, optional) ==
    [name |-> name, command |-> command, optional |-> optional]

\* Focus::settings_get and settings_set: the palette is two optional fields
FocusFields ==
    << Field("superkeys_overlap", "superkeys.overlap", FALSE),
       Field("led_brightness_top", "led.brightness", FALSE),
       Field("led_brightness_underglow", "led.brightnessUG", TRUE),
       Field("led_fade", "led.fade", TRUE),
       Field("led_theme", "led.theme", FALSE),
       Field("palette_rgb", "palette", TRUE),
       Field("palette_rgbw", "palette", TRUE),
       Field("color_map", "colormap.map", FALSE) >>

\* Flasher::settings_backup and settings_restore: the palette is required
FlasherFields ==
    << Field("superkeys_overlap", "superkeys.overlap", FALSE),
       Field("led_brightness_top", "led.brightness", FALSE),
       Field("led_brightness_underglow", "led.brightnessUG", TRUE),
       Field("led_fade", "led.fade", TRUE),
       Field("led_theme", "led.theme", FALSE),
       Field("palette", "palette", FALSE),
       Field("color_map", "colormap.map", FALSE) >>

FieldsOf(via) == IF via = "focus" THEN FocusFields ELSE FlasherFields
Vias == {"focus", "flasher"}
SettingCommands == {FocusFields[i].command : i \in DOMAIN FocusFields}

\* the device's values before the operation, and the value a snapshot that
\* was not read from this device holds for its i-th field
DeviceBefore == [c \in SettingCommands |-> 0]
SnapValue(i) == i
\* the devices: one reports a superkeys.overlap above the setter's limit
OverlapReported == {0, MaxOverlap + 10}
Devices == {[DeviceBefore EXCEPT !["superkeys.overlap"] = v] : v \in OverlapReported}

\* `if percentage > 80 { bail!(..) }` at the head of superkeys_overlap_set
SetterRejects(f, v) == f.name = "superkeys_overlap" /\ v > MaxOverlap

\* how a getter ends: with a value, with an error of the link, or with a
\* response it cannot parse; a setter ends with Ok or with an error of the link
GetterOutcomes == {"ok", "io", "parse"}
SetterOutcomes == {"ok", "io"}

\* the snapshots a restore can be given: every required field, and any of
\* the optional ones
Snapshots(via) ==
    LET fs == FieldsOf(via)
        required == {fs[i].name : i \in {j \in DOMAIN fs : ~fs[j].optional}}
        optional == {fs[i].name : i \in {j \in DOMAIN fs : fs[j].optional}}
        ValueOfName(n) == SnapValue(CHOOSE i \in DOMAIN fs : fs[i].name = n)
    IN { [n \in required \cup some |-> ValueOfName(n)] : some \in SUBSET optional }

\* if let Some(value) = settings.field
TakenAsSome(snap, f) == TRUE
IsSome(snap, f) == (~f.optional) \/ f.name \in DOMAIN snap
\* the value the setter is called with
SetterArgument(snap, f) == IF f.name \in DOMAIN snap THEN snap[f.name] ELSE 0

\* .await? on a field that is not an Option, .await.ok() on one that is
FailsBackup(f, outcome) == outcome # "ok" /\ ~f.optional

InitSettings ==
    /\ prop = "led_brightness_top"
    /\ dev = 0
    /\ InitCommon
    /\ HexIdle /\ ResolveIdle /\ FlashIdle /\ ChunkIdle /\ TextIdle /\ WriteIdle /\ OpsIdle
    /\ st_op = "none"
    /\ st_via = "focus"
    /\ st_pos = 0
    /\ st_snap = <<>>
    /\ st_dev \in Devices
    /\ st_log = <<>>
    /\ st_out = NoResult

\* settings_get / settings_backup is called
StartBackup ==
    /\ st_op = "none"
    /\ \E via \in Vias : st_via' = via
    /\ st_op' = "backup"
    /\ UNCHANGED <<focus_vars, hex_vars, resolve_vars, flash_vars, chunk_vars, text_vars,
                   write_vars, ops_vars, st_pos, st_snap, st_dev, st_log, st_out>>

\* the getter of the next field: its query is sent, and its result becomes
\* the field, None, or the error the backup returns; after the last field
\* the backup returns Ok(Settings { .. })
BackupField ==
    /\ st_op = "backup"
    /\ st_out = NoResult
    /\ LET fs == FieldsOf(st_via)
           f == fs[st_pos + 1]
       IN \E outcome \in GetterOutcomes :
            /\ st_log' = Append(st_log, [kind |-> "get", field |-> f.name,
                                         command |-> f.command, outcome |-> outcome,
                                         value |-> st_dev[f.command]])
            /\ st_pos' = st_pos + 1
            /\ st_snap' = IF outcome = "ok"
                          THEN [n \in DOMAIN st_snap \cup {f.name} |->
                                  IF n = f.name THEN st_dev[f.command] ELSE st_snap[n]]
                          ELSE st_snap
            /\ st_out' = IF FailsBackup(f, outcome) THEN Err(outcome)
                         ELSE IF st_pos + 1 = Len(fs) THEN Ok(<<>>)
                         ELSE NoResult
    /\ UNCHANGED <<focus_vars, hex_vars, resolve_vars, flash_vars, chunk_vars, text_vars,
                   write_vars, ops_vars, st_op, st_via, st_dev>>

\* settings_set / settings_restore is called with a snapshot
StartRestore ==
    /\ st_op = "none"
    /\ \E via \in Vias :
         /\ st_via' = via
         /\ st_snap' \in Snapshots(via)
    /\ st_op' = "restore"
    /\ UNCHANGED <<focus_vars, hex_vars, resolve_vars, flash_vars, chunk_vars, text_vars,
                   write_vars, ops_vars, st_pos, st_dev, st_log, st_out>>

\* a call in the log of the link
Sent(kind, f, outcome, v) ==
    [kind |-> kind, field |-> f.name, command |-> f.command, outcome |-> outcome,
     value |-> v]
Restoring == st_op \in {"restore", "restore_captured"}

\* settings_set / settings_restore is called with the snapshot that the
\* backup has just returned, on the same device
RestoreCaptured ==
    /\ st_op = "backup"
    /\ st_out.ok
    /\ st_op' = "restore_captured"
    /\ st_pos' = 0
    /\ st_log' = <<>>
    /\ st_out' = NoResult
    /\ UNCHANGED <<focus_vars, hex_vars, resolve_vars, flash_vars, chunk_vars, text_vars,
                   write_vars, ops_vars, st_via, st_snap, st_dev>>

\* the setter of the next field is called with the field's value: the range
\* check, the get query, and the set command when the value read differs;
\* when a step of it fails the restore returns the error, and a set command
\* whose call failed has reached the device or has not.  A device that has
\* not changed since the backup answers the query as it did then, so that
\* the answer parses.
RestoreField ==
    /\ Restoring
    /\ st_out = NoResult
    /\ LET fs == FieldsOf(st_via)
           f == fs[st_pos + 1]
           v == SetterArgument(st_snap, f)
           ended == IF st_pos + 1 = Len(fs) THEN Ok(<<>>) ELSE NoResult
       IN /\ IsSome(st_snap, f)
          /\ st_pos' = st_pos + 1
          /\ IF SetterRejects(f, v)
             THEN /\ st_out' = Err("OutOfRange")
                  /\ UNCHANGED <<st_log, st_dev>>
             ELSE \E got \in GetterOutcomes, outcome \in SetterOutcomes, taken \in BOOLEAN :
                    /\ (st_op = "restore_captured") => got # "parse"
                    /\ outcome = "ok" => taken
                    /\ LET query == Sent("get", f, got, st_dev[f.command])
                           sets == got = "ok" /\ ~SameValue(st_dev[f.command], v)
                       IN /\ st_log' = IF sets
                                       THEN st_log \o <<query, Sent("set", f, outcome, v)>>
                                       ELSE Append(st_log, query)
                          /\ st_dev' = IF sets /\ taken
                                       THEN [st_dev EXCEPT ![f.command] = v] ELSE st_dev
                          /\ st_out' = IF got # "ok" THEN Err(got)
                                       ELSE IF sets /\ outcome # "ok" THEN Err(outcome)
                                       ELSE ended
    /\ UNCHANGED <<focus_vars, hex_vars, resolve_vars, flash_vars, chunk_vars, text_vars,
                   write_vars, ops_vars, st_op, st_via, st_snap>>

\* the next field is None: the restore passes it
SkipField ==
    /\ Restoring
    /\ st_out = NoResult
    /\ LET fs == FieldsOf(st_via)
           f == fs[st_pos + 1]
       IN /\ ~IsSome(st_snap, f)
          /\ st_pos' = st_pos + 1
          /\ st_out' = IF st_pos + 1 = Len(fs) THEN Ok(<<>>) ELSE NoResult
    /\ UNCHANGED <<focus_vars, hex_vars, resolve_vars, flash_vars, chunk_vars, text_vars,
                   write_vars, ops_vars, st_op, st_via, st_snap, st_dev, st_log>>

NextSettings ==
    \/ StartBackup
    \/ BackupField
    \/ StartRestore
    \/ RestoreCaptured
    \/ RestoreField
    \/ SkipField
SettingsSpec == InitSettings /\ [][NextSettings]_vars

(***************************************************************************)
(* Claims about the settings snapshot.                                     *)
(***************************************************************************)
\* C25: a backup in which a getter failed, with an error of the link or
\* with a response that does not parse, returns an error: it never returns
\* a snapshot in which that field is missing.
C25_BackupReportsFailure ==
    (st_op = "backup" /\ \E i \in DOMAIN st_log : st_log[i].outcome # "ok")
        => ~st_out.ok

\* the optional fields of the snapshot that are None
AbsentFields ==
    LET fs == FieldsOf(st_via)
    IN {fs[i] : i \in {j \in DOMAIN fs : fs[j].optional /\ fs[j].name \notin DOMAIN st_snap}}
\* another field of the snapshot that is written with the same command
SharesCommand(f) ==
    LET fs == FieldsOf(st_via)
    IN \E i \in DOMAIN fs : /\ fs[i].name # f.name
                            /\ fs[i].command = f.command
                            /\ fs[i].name \in DOMAIN st_snap

\* C26: during a full restore no setter is called for an optional field of
\* the snapshot that is None: neither a get query nor a set command is
\* sent on its behalf.  Every command that is sent is the get query or the
\* set command of a field that is present, and a set command carries that
\* field's value (no default is written).  The device's value of the
\* property of a None field is as before, and no command names it, unless
\* another field of the snapshot that is present has the same command
\* (palette_rgb and palette_rgbw are both `palette`).
C26_AbsentNotWritten ==
    Restoring =>
        /\ \A f \in AbsentFields :
             /\ \A k \in DOMAIN st_log : st_log[k].field # f.name
             /\ ~SharesCommand(f) =>
                  /\ \A k \in DOMAIN st_log : st_log[k].command # f.command
                  /\ st_dev[f.command] = DeviceBefore[f.command]
        /\ \A k \in DOMAIN st_log :
             /\ st_log[k].field \in DOMAIN st_snap
             /\ st_log[k].kind = "set" => st_log[k].value = st_snap[st_log[k].field]
C26_Witness ==
    /\ st_op = "restore"
    /\ st_out.ok
    /\ {f.name : f \in AbsentFields} = {"led_brightness_underglow", "palette_rgb", "palette_rgbw"}
    /\ Cardinality({k \in DOMAIN st_log : st_log[k].kind = "set"}) = 5
    /\ st_dev["led.fade"] = st_snap["led_fade"]
\* C26 as it was stated: no command of the property of a None field is
\* sent, and the device's value of it is as before.
C26_AbsentUntouched ==
    Restoring =>
        \A f \in AbsentFields :
            /\ \A k \in DOMAIN st_log : st_log[k].command # f.command
            /\ st_dev[f.command] = DeviceBefore[f.command]

(***************************************************************************)
(* Claims about the link after an operation that failed (checked under     *)
(* SetterSpec: the range checks, and the getters on a device whose value   *)
(* the getter cannot parse).                                               *)
(***************************************************************************)
ProtocolErrors == {"Parse", "OutOfRange"}
FailedOnProtocol(c) == pc[c] = "returned" /\ result[c].err \in ProtocolErrors

\* C27: when an operation has failed with a protocol error (a response
\* that does not parse as the number, the bool or the vector that is
\* expected, or an argument out of range), nothing is left on the link: no
\* command is waiting and no byte of a response is unread, the operation
\* has read exactly what the device sent in reply to its command (nothing
\* was sent and nothing read when the argument was out of range), and what
\* any operation reads was sent in reply to its own command.
C27_LinkQuietAfterProtocolError ==
    /\ \A c \in Callers :
         FailedOnProtocol(c) =>
            /\ LinkQuiet
            /\ IF result[c].err = "OutOfRange"
               THEN events[c] = <<>> /\ reply = <<>>
               ELSE received = reply /\ reply # <<>>
    /\ \A c \in Callers : got_src[c] \subseteq {c}
\* the getter of a vector has failed on a response whose second value is
\* not a u8, after the response came in more than one read
C27_Witness ==
    \E c \in Callers :
        /\ FailedOnProtocol(c)
        /\ prop = "color_map"
        /\ result[c].err = "Parse"
        /\ split
        /\ received = reply

(***************************************************************************)
(* Flasher::write (nrf52833_flasher.rs 62-68): the buffer goes to the link *)
(* slice by slice.  dygma_write_bytes is one write call of the link: it    *)
(* passes the bytes it is given, or fails.                                 *)
(***************************************************************************)
MaxWriteCalls == 3

\* buffer.chunks_exact(size): the slices of full length only
chunks_exact(buffer, size) ==
    [k \in 1..(Len(buffer) \div size) |-> SubSeq(buffer, (k - 1) * size + 1, k * size)]
\* buffer.chunks(size): consecutive slices of `size` bytes, the last one shorter
\* when the length is not a multiple of size
chunks(buffer, size) ==
    [k \in 1..((Len(buffer) + size - 1) \div size) |->
        SubSeq(buffer, (k - 1) * size + 1,
               IF k * size < Len(buffer) THEN k * size ELSE Len(buffer))]

\* one call of dygma_write_bytes, as the link sees it
LinkWrite(bytes, ok) == [bytes |-> bytes, ok |-> ok]

\* buffers of every length around the multiples of 200, of bytes that count
\* up from a first byte
WriteLengths ==
    {0, 1} \cup UNION {{k * WriteSize - 1, k * WriteSize, k * WriteSize + 1} :
                         k \in 1..(MaxWriteCalls - 1)}
           \cup {MaxWriteCalls * WriteSize}
WriteBuffers ==
    {[i \in 1..n |-> (first + i) % 256] : n \in WriteLengths, first \in {0, 100}}

InitWrite ==
    /\ prop = "led_brightness_top"
    /\ dev = 0
    /\ InitCommon
    /\ HexIdle /\ ResolveIdle /\ FlashIdle /\ ChunkIdle /\ TextIdle /\ SettingsIdle /\ OpsIdle
    /\ wr_buffer \in WriteBuffers
    /\ wr_fail \in 0..MaxWriteCalls
    /\ wr_calls = <<>>
    /\ wr_out = NoResult

\* one turn of the loop: the next slice is written; when the call fails
\* write returns its error, after the last slice it returns Ok(())
WriteSlice ==
    /\ wr_out = NoResult
    /\ LET parts == chunks(wr_buffer, WriteSize)
           k == Len(wr_calls) + 1
       IN /\ k <= Len(parts)
          /\ wr_calls' = Append(wr_calls, LinkWrite(parts[k], k # wr_fail))
          /\ wr_out' = IF k = wr_fail THEN Err("Io")
                       ELSE IF k = Len(parts) THEN Ok(<<>>)
                       ELSE NoResult
    /\ UNCHANGED <<focus_vars, hex_vars, resolve_vars, flash_vars, chunk_vars, text_vars,
                   settings_vars, ops_vars, wr_buffer, wr_fail>>

\* the buffer is empty: the loop has no turn
WriteNothing ==
    /\ wr_out = NoResult
    /\ chunks(wr_buffer, WriteSize) = <<>>
    /\ wr_out' = Ok(<<>>)
    /\ UNCHANGED <<focus_vars, hex_vars, resolve_vars, flash_vars, chunk_vars, text_vars,
                   settings_vars, ops_vars, wr_buffer, wr_fail, wr_calls>>

NextWrite == WriteSlice \/ WriteNothing
WriteSpec == InitWrite /\ [][NextWrite]_vars

(***************************************************************************)
(* Claims about Flasher::write.                                            *)
(***************************************************************************)
RECURSIVE Written(_)
Written(calls) ==
    IF calls = <<>> THEN <<>> ELSE Written(SubSeq(calls, 1, Len(calls) - 1)) \o calls[Len(calls)].bytes

\* C29: the write calls of the link carry 1 to 200 bytes each and, one
\* after the other, the bytes of the buffer in order; write returns Ok
\* after ceil(len / 200) calls that all passed (none for the empty buffer)
\* and that carry the whole buffer; a call that failed is the last call,
\* and write has returned an error.
C29_WriteInSlices ==
    /\ \A k \in DOMAIN wr_calls :
         /\ Len(wr_calls[k].bytes) \in 1..200
         /\ k < Len(wr_calls) => wr_calls[k].ok /\ Len(wr_calls[k].bytes) = 200
         /\ ~wr_calls[k].ok => ~wr_out.ok /\ wr_out.err = "Io"
    /\ IsPrefix(Written(wr_calls), wr_buffer)
    /\ wr_out.ok =>
         /\ Written(wr_calls) = wr_buffer
         /\ Len(wr_calls) * 200 >= Len(wr_buffer)
         /\ Len(wr_buffer) > (Len(wr_calls) - 1) * 200 \/ wr_buffer = <<>>
         /\ wr_buffer = <<>> => wr_calls = <<>>
    /\ wr_out = NoResult => Written(wr_calls) # wr_buffer \/ wr_buffer = <<>>
\* a buffer of 401 bytes has been written in three calls, and another
\* write has stopped at its second call
C29_Witness ==
    \/ /\ wr_out.ok
       /\ Len(wr_buffer) = 401
       /\ Len(wr_calls) = 3
       /\ Len(wr_calls[3].bytes) = 1
       /\ wr_fail = 0
    \/ /\ wr_fail = 2
       /\ wr_out.err = "Io"
       /\ Len(wr_buffer) = 600
       /\ Len(wr_calls) = 2

(***************************************************************************)
(* Claims about the parallel decoding of the lines (checked under HexSpec).*)
(***************************************************************************)
\* the lines decoded one after the other: the records of all of them, or
\* what the first line that fails ends with
RECURSIVE DecodeInTurn(_)
DecodeInTurn(lines) ==
    IF lines = <<>> THEN Ok(<<>>)
    ELSE LET first == DecodeMarked(lines[1])
         IN IF ~first.ok THEN first
            ELSE LET rest == DecodeInTurn(Tail(lines))
                 IN IF ~rest.ok THEN rest ELSE Ok(<<first.val>> \o rest.val)

\* C30: whatever the scheduling of the line decoders, ihex_decode_lines
\* ends as decoding the lines one after the other ends: with one record
\* for each line, in the order of the lines, or with the outcome of the
\* first line that fails.
C30_AsInTurn ==
    decoded # NoResult =>
        /\ decoded = DecodeInTurn(file_lines)
        /\ decoded.ok => Len(decoded.val) = Len(file_lines)

(***************************************************************************)
(* Claims about the plan (checked under HexSpec).                          *)
(***************************************************************************)
\* the Data records among the records the pass has taken
IsDataRecord(r) == r.record_type = <<"DAT">>
DataRecordsPassed == SelectSeq(SubSeq(decoded.val, 1, rpos), IsDataRecord)

\* C31: the plan of resolve_addresses holds the Data records of its input
\* and no other record, in the order of the input, each with its payload
\* (only the address is resolved); segment and linear directives and
\* Unknown records are not in it, and the running total is the sum of the
\* payload lengths of the records in the plan.
C31_PlanIsDataRecords ==
    decoded.ok =>
        /\ Len(plan) = Len(DataRecordsPassed)
        /\ \A k \in 1..Len(plan) :
             /\ plan[k].record_type = <<"DAT">>
             /\ [plan[k] EXCEPT !.address = DataRecordsPassed[k].address] = DataRecordsPassed[k]
        /\ total = PayloadSum(plan)
\* the pass has ended on a text with an Unknown record (end of file) and a
\* directive between two Data records
C31_Witness ==
    /\ Resolved
    /\ Len(decoded.val) = 3
    /\ Len(plan) = 1
    /\ \E i, j \in 1..3 : /\ decoded.val[i].record_type = <<"Unknown", 1>>
                          /\ decoded.val[j].record_type \in {<<"ESA">>, <<"ELA">>}
    /\ total > 0

(***************************************************************************)
(* Claims about the end of a session (checked under FairFlashSpec).        *)
(***************************************************************************)
\* C32: every flashing session reaches Done or Failed; every turn of the
\* transfer loop takes a group of at least one record, all of which are
\* written before the next turn, or ends the session with StalledTransfer
\* or goes on to Finalize when the plan is consumed.
C32_SessionEnds ==
    /\ (fpc = "init") ~> (fpc \in {"done", "failed"})
    /\ [][(fpc = "take" /\ fpc' # "take") =>
             \/ fpc' = "failed" /\ error' = "StalledTransfer"
             \/ fpc' = "send_S" /\ next_rec > Len(flash_plan)
             \/ /\ fpc' = "send_U"
                /\ group'.first = next_rec
                /\ group'.last >= next_rec
                /\ group'.last <= Len(flash_plan)]_vars
    /\ [][fpc' = "take" => (fpc = "ack_E" \/ (fpc = "ack_W" /\ next_rec' = group.last + 1))]_vars
    /\ [][fpc = "take" => fpc' # "take"]_vars
\* a second session is done after two turns of the loop
C32_Witness ==
    /\ fpc = "done"
    /\ sessions = 2
    /\ Len(flash_plan) = 3
    /\ flash_plan[1].length + flash_plan[2].length > 4096

(***************************************************************************)
(* Claims about the texts of color vectors (checked under TextSpec).       *)
(***************************************************************************)
\* the components of the colors of a vector, one after the other
RECURSIVE InOrder(_)
InOrder(colors) ==
    IF colors = <<>> THEN <<>>
    ELSE (IF tx_op = "vec_rgb"
          THEN <<colors[1].r, colors[1].g, colors[1].b>>
          ELSE <<colors[1].r, colors[1].g, colors[1].b, colors[1].w>>)
         \o InOrder(Tail(colors))

\* C33: string_to_rgb_vec(rgb_vec_to_string(v)) returns v for every vector
\* of RGB colors and string_to_rgbw_vec(rgbw_vec_to_string(w)) returns w
\* for every vector of RGBW colors; the text is the components of the
\* colors in the order r g b (w), as decimal numbers with single spaces
\* between all of them.
C33_ColorRoundTrip ==
    tx_op \in {"vec_rgb", "vec_rgbw"} =>
        /\ tx_text # NoText =>
              /\ SingleSpaced(tx_text, Len(InOrder(tx_arg)))
              /\ string_to_numerical_vec(tx_text, 255) = Ok(InOrder(tx_arg))
        /\ (tx_text # NoText /\ tx_op = "vec_rgb" /\ Len(tx_arg) = 3 /\ tx_arg[1].r = 41)
               => tx_text = <<52, 49, 32, 51, 48, 32, 51, 49, 32, 51, 50, 32, 51, 51, 32,
                              51, 52, 32, 51, 53, 32, 50, 49, 50, 32, 49, 48>>
        /\ tx_out # NoResult => tx_out = Ok(tx_arg)
\* two RGBW colors came back from "0 10 255 100 255 196 0 0"
C33_Witness ==
    /\ tx_op = "vec_rgbw"
    /\ tx_text = <<48, 32, 49, 48, 32, 50, 53, 53, 32, 49, 48, 48, 32,
                   50, 53, 53, 32, 49, 57, 54, 32, 48, 32, 48>>
    /\ tx_out = Ok(<<[r |-> 0, g |-> 10, b |-> 255, w |-> 100],
                     [r |-> 255, g |-> 196, b |-> 0, w |-> 0]>>)
    /\ tx_out.val = tx_arg

\* C36: the restore of a snapshot that was just captured from the same,
\* unchanged device succeeds and sends no set command, whatever values the
\* device reports (as long as no call of the link fails).
C36_RestoreOfCapturedIsQuiet ==
    (st_op = "restore_captured" /\ st_via = "focus" /\ st_out # NoResult
        /\ \A k \in DOMAIN st_log : st_log[k].outcome = "ok")
      => /\ st_out.ok
         /\ \A k \in DOMAIN st_log : st_log[k].kind # "set"

(***************************************************************************)
(* The operations of Focus command by command (api.rs 227-308): what       *)
(* command_raw writes and whether a response is read after it, and the     *)
(* operations that take a layer, led_all and upgrade_keyscanner_send_write.*)
(* The device answers every line that ends with a line feed with one       *)
(* response.                                                               *)
(***************************************************************************)
OpLine(name, args) == [name |-> name, args |-> args]

\* command_raw(command, suffix, wait_for_response): the line is written
\* with its suffix; with wait_for_response one response is read
command_raw(command, suffix, wait_for_response) ==
    [line |-> command, suffix |-> suffix, wait |-> wait_for_response,
     read_after |-> FALSE, parse |-> "none"]
command_new_line_unread(command, wait_for_response) == command_raw(command, LF, FALSE)
command_new_line(command, wait_for_response) == command_raw(command, LF, wait_for_response)
command_whitespace(command) == command_raw(command, SP, FALSE)
\* command_response_string: command_new_line(command, false), then self.read()
command_response_string(command) ==
    [command_new_line(command, FALSE) EXCEPT !.read_after = TRUE]
command_response_numerical(command) ==
    [command_response_string(command) EXCEPT !.parse = "u8"]
command_response_bool(command) ==
    [command_response_string(command) EXCEPT !.parse = "bool"]

\* the layers a caller passes: the first two, the last (MAX_LAYERS), the
\* one after it and the largest u8
Layers == {0, 1, MAX_LAYERS, MAX_LAYERS + 1, U8Max}
LayerOps ==
    {"settings_default_layer_set", "layer_activate", "layer_deactivate", "layer_is_active",
     "layer_move_to"}
OpCall(name, arg, reported) == [name |-> name, arg |-> arg, reported |-> reported]
\* the calls: an Option<u8> is <<>> (None) or <<layer>>; `reported` is the
\* default layer the device reports
OpCalls ==
    {OpCall(n, <<l>>, 0) : n \in LayerOps \ {"settings_default_layer_set"}, l \in Layers}
        \cup {OpCall("layer_deactivate", <<>>, 0)}
        \cup {OpCall("settings_default_layer_set", <<l>>, r) : l \in Layers, r \in {0, MAX_LAYERS}}
        \cup {OpCall("led_all", <<255, 196, 0>>, 0),
              OpCall("upgrade_keyscanner_send_write", <<>>, 0)}

\* `if layer > MAX_LAYERS { bail!(..) }`: the operations that have it
ChecksLayer(c) ==
    \/ c.name \in {"settings_default_layer_set", "layer_is_active"}
    \/ c.name = "layer_deactivate" /\ c.arg # <<>>
LayerRejected(c) == ChecksLayer(c) /\ c.arg[1] > MAX_LAYERS

\* the commands of an operation up to its first response that decides how
\* it goes on
Program(c) ==
    CASE c.name = "layer_activate" ->
            <<command_new_line(OpLine("layer.activate", c.arg), TRUE)>>
      [] c.name = "layer_deactivate" ->
            IF c.arg # <<>>
            THEN <<command_new_line(OpLine("layer.deactivate", c.arg), TRUE),
                   command_new_line(OpLine("layer.deactivate", <<>>), TRUE)>>
            ELSE <<command_new_line(OpLine("layer.deactivate", <<>>), TRUE)>>
      [] c.name = "layer_is_active" ->
            <<command_response_bool(OpLine("layer.isActive", c.arg))>>
      [] c.name = "layer_move_to" ->
            <<command_new_line(OpLine("layer.moveTo", c.arg), TRUE)>>
      [] c.name = "settings_default_layer_set" ->
            <<command_response_numerical(OpLine("settings.defaultLayer", <<>>))>>
      [] c.name = "led_all" ->
            <<command_new_line(OpLine("led.setAll", c.arg), TRUE)>>
      [] c.name = "upgrade_keyscanner_send_write" ->
            <<command_whitespace(OpLine("upgrade.keyscanner.sendWrite", <<>>))>>
\* what follows the response to a query: the set command of
\* settings_default_layer_set when the layer read differs
Follows(c, step) ==
    IF c.name = "settings_default_layer_set" /\ step.parse = "u8" /\ c.reported # c.arg[1]
    THEN <<command_new_line(OpLine("settings.defaultLayer", c.arg), TRUE)>>
    ELSE <<>>

\* the responses to a boolean query: "0", "1", "x"
BoolTexts == {<<48>>, <<49>>, <<120>>}

InitOps ==
    /\ prop = "led_brightness_top"
    /\ dev = 0
    /\ InitCommon
    /\ HexIdle /\ ResolveIdle /\ FlashIdle /\ ChunkIdle /\ TextIdle /\ SettingsIdle /\ WriteIdle
    /\ OpsIdle

\* an operation is called: its range check, when it has one
CallOp ==
    /\ op_call.name = "none"
    /\ \E c \in OpCalls :
         /\ op_call' = c
         /\ op_todo' = IF LayerRejected(c) THEN <<>> ELSE Program(c)
         /\ op_out' = IF LayerRejected(c) THEN Err("OutOfRange") ELSE NoResult
    /\ UNCHANGED <<focus_vars, hex_vars, resolve_vars, flash_vars, chunk_vars, text_vars,
                   settings_vars, write_vars, op_sent, op_reads, op_unread>>

\* the next command of the operation: the line is written, the device
\* answers it when it ends with a line feed, the response is read when the
\* command awaits one, and parsed
RunCommand ==
    /\ op_todo # <<>>
    /\ op_out = NoResult
    /\ LET step == Head(op_todo)
           reads == step.wait \/ step.read_after
           answered == IF step.suffix = LF THEN 1 ELSE 0
       IN \E written \in BOOLEAN, was_read \in BOOLEAN, text \in BoolTexts :
            LET parsed == IF step.parse = "bool" THEN ParseBool(text) ELSE Ok(<<>>)
                rest == Tail(op_todo) \o Follows(op_call, step)
            IN /\ op_sent' = IF written
                             THEN Append(op_sent, [line |-> step.line, suffix |-> step.suffix])
                             ELSE op_sent
               /\ op_reads' = IF written /\ reads /\ was_read THEN op_reads + 1 ELSE op_reads
               /\ op_unread' = IF ~written THEN op_unread
                               ELSE IF reads /\ was_read THEN op_unread + answered - 1
                               ELSE op_unread + answered
               /\ op_out' = IF ~written \/ (reads /\ ~was_read) THEN Err("Io")
                            ELSE IF ~parsed.ok THEN parsed
                            ELSE IF rest = <<>> THEN Ok(<<>>)
                            ELSE NoResult
               /\ op_todo' = IF written /\ (reads => was_read) /\ parsed.ok THEN rest ELSE <<>>
    /\ UNCHANGED <<focus_vars, hex_vars, resolve_vars, flash_vars, chunk_vars, text_vars,
                   settings_vars, write_vars, op_call>>

\* the operation has returned; an I/O error ends the session
ReturnOp ==
    /\ op_out # NoResult
    /\ op_out.err # "Io"
    /\ op_call' = NoOp
    /\ op_todo' = <<>>
    /\ op_sent' = <<>>
    /\ op_reads' = 0
    /\ op_out' = NoResult
    /\ UNCHANGED <<focus_vars, hex_vars, resolve_vars, flash_vars, chunk_vars, text_vars,
                   settings_vars, write_vars, op_unread>>

NextOps == CallOp \/ RunCommand \/ ReturnOp
OpsSpec == InitOps /\ [][NextOps]_vars

(***************************************************************************)
(* Claims about the operations (checked under OpsSpec).                    *)
(***************************************************************************)
\* C34: a layer_deactivate that has returned Ok has written exactly one
\* line, "layer.deactivate {layer}\n" for Some(layer) and
\* "layer.deactivate\n" for None, and read exactly one response.
C34_DeactivateOnce ==
    (op_call.name = "layer_deactivate" /\ op_out.ok) =>
        /\ op_sent = <<[line |-> [name |-> "layer.deactivate", args |-> op_call.arg],
                        suffix |-> 10]>>
        /\ op_reads = 1

C39_LayerAboveMaxRejected ==
    (op_call.name \in {"settings_default_layer_set", "layer_activate", "layer_deactivate",
                       "layer_is_active", "layer_move_to"}
        /\ op_call.arg # <<>> /\ op_call.arg[1] > 9)
      => /\ op_sent = <<>>
         /\ ~op_out.ok

==========================================================================
